---- MODULE Spec2Model ----
(***************************************************************************)
(* Multi-runner rest-period comparison of the ultra-endurance analysis     *)
(* front end: MutipleRunnerAnalysis.init and the methods it calls, in      *)
(* particular #updateRestPeriodsListMultiRunner.                           *)
(*                                                                         *)
(* Miles and paces are JavaScript numbers in the source.  The model uses   *)
(* non-negative integers; a mean mile is kept as the exact fraction        *)
(* <<sum, count>> and compared by cross-multiplication, so no rounding is  *)
(* introduced.  An absent numeric field is Undef, an absent string field   *)
(* is the empty string (both are falsy in the source, like 0 and '').      *)
(***************************************************************************)
EXTENDS Integers, Sequences, FiniteSets, TLC

VARIABLES
    selectedRunners,       \* this.runners.selectedRunners
    analyses,              \* this.analyses: runnerId -> rest_periods list
    pc,                    \* position inside #updateRestPeriodsListMultiRunner
    allRunnerRestPeriods,  \* the collected, tagged and sorted rest periods
    idx,                   \* forEach position of the grouping loop
    restGroups,            \* the clusters
    rows,                  \* the rendered rest-group rows
    container,             \* what container.innerHTML shows
    payload,               \* the analysis response: status and error
    runnerAnalyses,        \* the RunnerAnalyses instance built from it
    hasSelection,          \* runners.selectedRunners is defined
    details,               \* this.analyses: runnerId -> the other sections
    stage,                 \* position inside MutipleRunnerAnalysis.init
    thrown,                \* message of the error that left init, or ""
    multiRunnerTable,      \* rows of #multiRunnerTable
    fatigueChart,          \* runners plotted in the fatigue chart
    segmentTable,          \* rows of the course segment table
    criticalSegments,      \* the ranking of #updateRecommendationsMultiRunner
    stored,                \* init has assigned this.runners and this.analyses
    firstRun,              \* an earlier run of the rest list, for comparison
    runnersPage,           \* the Runners page: cards, alert, callback, button
    dashboard,             \* the dashboard: selectedAthletes, notification, location
    fetcher                \* one call of fetchWithRetry

restVars == <<selectedRunners, analyses, pc, allRunnerRestPeriods, idx,
              restGroups, rows, container>>

outputs == <<multiRunnerTable, fatigueChart, segmentTable, criticalSegments>>

pageVars == <<firstRun, runnersPage, dashboard, fetcher>>

initVars == <<payload, runnerAnalyses, hasSelection, details, stage, thrown,
              multiRunnerTable, fatigueChart, segmentTable, criticalSegments,
              stored, pageVars>>

vars == <<selectedRunners, analyses, pc, allRunnerRestPeriods, idx,
          restGroups, rows, container, payload, runnerAnalyses, hasSelection,
          details, stage, thrown, multiRunnerTable, fatigueChart,
          segmentTable, criticalSegments, stored, firstRun, runnersPage,
          dashboard, fetcher>>

----------------------------------------------------------------------------
(* Bounds of the explored inputs *)

MaxRests == 4        \* rest periods in one clustering request
MaxCandidates == 3   \* rest periods of the runner whose representative is selected
MaxRunnerRests == 2  \* rest periods per runner in a whole comparison
CourseLength == 6    \* segments of the course
MaxRuns == 3         \* runs of the rest list by one instance
MaxRunners == 6      \* runner cards on the page
MaxAthletes == 2     \* athletes listed on the dashboard
MaxRetries == 4      \* the maxRetries argument of fetchWithRetry

(* Program constants *)

MILE_VARIANCE_THRESHOLD == 5
VisibleGroupLimit == 3
CriticalSegmentLimit == 5
SelectionLimit == 5
ComparisonLimit == 5
MinCompared == 2
BaseDelay == 1000

Undef == 0 - 1

----------------------------------------------------------------------------
(* Field access with the source's falsy fallbacks *)

Truthy(n) == n # Undef /\ n # 0

Abs(n) == IF n < 0 THEN 0 - n ELSE n

\* rest.mile || rest.start_mile || 0
MileOf(rest) ==
    IF Truthy(rest.mile) THEN rest.mile
    ELSE IF Truthy(rest.start_mile) THEN rest.start_mile
    ELSE 0

\* rest.nearby_aid_station || 'Unknown'
AidStationOf(rest) ==
    IF rest.nearby_aid_station # "" THEN rest.nearby_aid_station ELSE "Unknown"

\* rest.pace_during || rest.actual_pace || 0
PaceOf(rest) ==
    IF Truthy(rest.pace_during) THEN rest.pace_during
    ELSE IF Truthy(rest.actual_pace) THEN rest.actual_pace
    ELSE 0

\* the filter predicate: rest.mile || rest.start_mile
HasLocation(rest) == Truthy(rest.mile) \/ Truthy(rest.start_mile)

\* analysis?.rest_periods?.rest_periods || analysis?.rest_periods || []
RestPeriodsOf(runnerId) ==
    IF /\ runnerId \in DOMAIN analyses
       /\ details[runnerId].rest_periods \in {"flat", "wrapped"}
    THEN analyses[runnerId]
    ELSE <<>>

\* rest_periods is an object without a nested list: the expression above
\* yields that object, which has no filter method
MalformedRestData(runnerId) ==
    /\ runnerId \in DOMAIN details
    /\ details[runnerId].rest_periods = "malformed"

----------------------------------------------------------------------------
(* Collecting and sorting *)

\* {...rest, runnerId}: ord is the position in the runner's own list and
\* stands for the identity of the copied object
Tag(rest, runnerId, ord) ==
    [mile |-> rest.mile, start_mile |-> rest.start_mile,
     nearby_aid_station |-> rest.nearby_aid_station,
     confidence |-> rest.confidence,
     pace_during |-> rest.pace_during, actual_pace |-> rest.actual_pace,
     runnerId |-> runnerId, ord |-> ord]

TaggedRestPeriods(runnerId) ==
    LET all == RestPeriodsOf(runnerId)
        tagged == [i \in 1..Len(all) |-> Tag(all[i], runnerId, i)]
    IN  SelectSeq(tagged, HasLocation)

RECURSIVE CollectFrom(_)
CollectFrom(k) ==
    IF k > Len(selectedRunners) THEN <<>>
    ELSE TaggedRestPeriods(selectedRunners[k]) \o CollectFrom(k + 1)

\* position after the last element whose mile is <= the inserted one
RECURSIVE InsertByMile(_, _)
InsertByMile(sorted, rest) ==
    IF sorted = <<>> THEN <<rest>>
    ELSE IF MileOf(sorted[Len(sorted)]) - MileOf(rest) > 0
         THEN Append(InsertByMile(SubSeq(sorted, 1, Len(sorted) - 1), rest),
                     sorted[Len(sorted)])
         ELSE Append(sorted, rest)

\* Array.prototype.sort((a, b) => aMile - bMile), stable
RECURSIVE SortByMile(_)
SortByMile(s) ==
    IF s = <<>> THEN <<>>
    ELSE InsertByMile(SortByMile(SubSeq(s, 1, Len(s) - 1)), s[Len(s)])

----------------------------------------------------------------------------
(* Grouping *)

RECURSIVE SumMiles(_)
SumMiles(group) ==
    IF group = <<>> THEN 0
    ELSE MileOf(group[1]) + SumMiles(Tail(group))

\* group.reduce(...) / group.length, as the fraction <<sum, count>>
AvgMile(group) == <<SumMiles(group), Len(group)>>

\* Math.abs(mile - avg) <= MILE_VARIANCE_THRESHOLD
WithinVariance(mile, avg) ==
    Abs(mile * avg[2] - avg[1]) <= MILE_VARIANCE_THRESHOLD * avg[2]

\* variant: the mile-variance test is missing
CanJoinSameStationOnly(rest, group) ==
    AidStationOf(rest) = AidStationOf(group[1])

\* variant: the aid-station test is missing
CanJoinAnyStation(rest, group) ==
    WithinVariance(MileOf(rest), AvgMile(group))

CanJoin(rest, group) ==
    /\ AidStationOf(rest) = AidStationOf(group[1])
    /\ WithinVariance(MileOf(rest), AvgMile(group))

\* for (let group of restGroups) { if (...) { push; break } }: 0 when none
RECURSIVE FindGroup(_, _, _)
FindGroup(rest, groups, g) ==
    IF g > Len(groups) THEN 0
    ELSE IF CanJoin(rest, groups[g]) THEN g
    ELSE FindGroup(rest, groups, g + 1)

AddToGroups(rest, groups) ==
    LET g == FindGroup(rest, groups, 1)
    IN  IF g # 0 THEN [groups EXCEPT ![g] = Append(@, rest)]
        ELSE Append(groups, <<rest>>)

\* aAvgMile - bAvgMile > 0
AvgGreater(a, b) == SumMiles(a) * Len(b) > SumMiles(b) * Len(a)

RECURSIVE InsertByAvg(_, _)
InsertByAvg(sorted, group) ==
    IF sorted = <<>> THEN <<group>>
    ELSE IF AvgGreater(sorted[Len(sorted)], group)
         THEN Append(InsertByAvg(SubSeq(sorted, 1, Len(sorted) - 1), group),
                     sorted[Len(sorted)])
         ELSE Append(sorted, group)

\* variant: the groups keep their creation order
SortGroupsSkipped(groups) == groups

\* restGroups.sort((a, b) => aAvgMile - bAvgMile), stable
RECURSIVE SortGroups(_)
SortGroups(groups) ==
    IF groups = <<>> THEN <<>>
    ELSE InsertByAvg(SortGroups(SubSeq(groups, 1, Len(groups) - 1)),
                     groups[Len(groups)])

----------------------------------------------------------------------------
(* Selecting one rest period per runner and group *)

\* variant: an absent confidence scores like 'low'
getConfidenceScoreAbsentAsLow(conf) ==
    CASE conf = "high" -> 3
      [] conf = "medium" -> 2
      [] OTHER -> 1

\* Confidence scoring: high=3, medium=2, low=1, undefined=0
getConfidenceScore(conf) ==
    CASE conf = "high" -> 3
      [] conf = "medium" -> 2
      [] conf = "low" -> 1
      [] OTHER -> 0

\* variant: the two confidence comparisons are swapped
ByConfidenceReversed(best, current) ==
    LET bestConf == getConfidenceScore(best.confidence)
        currentConf == getConfidenceScore(current.confidence)
    IN  IF currentConf < bestConf THEN "current"
        ELSE IF bestConf < currentConf THEN "best"
        ELSE "tie"

\* variant: current also wins when the confidences are equal
ByConfidenceCurrentOnTie(best, current) ==
    LET bestConf == getConfidenceScore(best.confidence)
        currentConf == getConfidenceScore(current.confidence)
    IN  IF currentConf >= bestConf THEN "current" ELSE "best"

\* 1. Prioritize higher confidence
ByConfidence(best, current) ==
    LET bestConf == getConfidenceScore(best.confidence)
        currentConf == getConfidenceScore(current.confidence)
    IN  IF currentConf > bestConf THEN "current"
        ELSE IF bestConf > currentConf THEN "best"
        ELSE "tie"

\* variant: the pace tie-break is missing
ByPaceSkipped(best, current) == "tie"

\* 2. If same confidence, prioritize slower pace (higher pace_during)
ByPace(best, current) ==
    LET bestPace == PaceOf(best)
        currentPace == PaceOf(current)
    IN  IF currentPace > bestPace THEN "current"
        ELSE IF bestPace > currentPace THEN "best"
        ELSE "tie"

\* Math.abs(mile - avgMile), scaled by the group's size
MileDiff(rest, avg) == Abs(MileOf(rest) * avg[2] - avg[1])

\* variant: the farther rest period wins
ByProximityFarther(best, current, avg) ==
    IF MileDiff(current, avg) > MileDiff(best, avg) THEN "current" ELSE "best"

\* 3. If same confidence and pace, prioritize closer to group average
ByProximity(best, current, avg) ==
    IF MileDiff(current, avg) < MileDiff(best, avg) THEN "current" ELSE "best"

\* the reduce callback (best, current) => ...
Prefer(best, current, avg) ==
    LET c == ByConfidence(best, current)
        p == ByPace(best, current)
        w == IF c # "tie" THEN c
             ELSE IF p # "tie" THEN p
             ELSE ByProximity(best, current, avg)
    IN  IF w = "current" THEN current ELSE best

\* runnerRests.reduce(callback) without an initial value
RECURSIVE ReduceFrom(_, _, _, _)
ReduceFrom(rests, i, best, avg) ==
    IF i > Len(rests) THEN best
    ELSE ReduceFrom(rests, i + 1, Prefer(best, rests[i], avg), avg)

\* group.filter(r => r.runnerId == runnerId)
RunnerRests(group, runnerId) ==
    SelectSeq(group, LAMBDA r : r.runnerId = runnerId)

\* group.find(r => r.nearby_aid_station)?.nearby_aid_station || ''
RECURSIVE FirstAidStation(_)
FirstAidStation(group) ==
    IF group = <<>> THEN ""
    ELSE IF group[1].nearby_aid_station # "" THEN group[1].nearby_aid_station
    ELSE FirstAidStation(Tail(group))

\* variant: the digits after the first decimal are cut off
toFixed1Truncated(avg) == (10 * avg[1]) \div avg[2]

\* avgMile.toFixed(1), in tenths of a mile: the nearest tenth, the upper one
\* when the mean lies exactly half-way.  (A half-way mean of fewer than 20
\* integer miles is a multiple of 1/4, which a double holds exactly.)
toFixed1(avg) == (20 * avg[1] + avg[2]) \div (2 * avg[2])

\* createPlaceholderCard(avgMile, nearbyAidStation, colClass): the card
\* shows "Mile ~<avgMile.toFixed(1)>", the aid station when there is one,
\* the text "No rest detected" and the badge "no rest"
createPlaceholderCard(avgMile, nearbyAidStation) ==
    [kind |-> "placeholder", avgMile |-> avgMile,
     mileText |-> toFixed1(avgMile),
     nearbyAidStation |-> nearbyAidStation,
     text |-> "No rest detected", badge |-> "no rest"]

\* createRestCard(runnerRest) or createPlaceholderCard(avgMile, station);
\* runnerId records whose column of the row the card fills
RunnerCard(group, runnerId) ==
    LET runnerRests == RunnerRests(group, runnerId)
        avgMile == AvgMile(group)
    IN  IF Len(runnerRests) > 0
        THEN [kind |-> "rest", runnerId |-> runnerId,
              rest |-> ReduceFrom(runnerRests, 2, runnerRests[1], avgMile)]
        ELSE [runnerId |-> runnerId]
                 @@ createPlaceholderCard(avgMile, FirstAidStation(group))

\* variant: no placeholder card is emitted
RowCardsWithoutPlaceholders(group) ==
    SelectSeq([j \in 1..Len(selectedRunners) |->
                   RunnerCard(group, selectedRunners[j])],
              LAMBDA card : card.kind = "rest")

\* this.runners.selectedRunners.forEach(runnerId => html += card)
RowCards(group) ==
    [j \in 1..Len(selectedRunners) |-> RunnerCard(group, selectedRunners[j])]

\* Math.min(3, restGroups.length)
VisibleGroups == IF Len(restGroups) < VisibleGroupLimit
                 THEN Len(restGroups) ELSE VisibleGroupLimit

----------------------------------------------------------------------------
(* The per-runner summary table: #updateMultiRunnerTable *)

\* variant: the count looks at the flat list only
RestCountFlatOnly(analysis) ==
    IF analysis.rest_periods = "flat" THEN Len(analysis.rest_list) ELSE 0

\* analysis.rest_periods?.rest_periods?.length
\*     || analysis.rest_periods?.length || 0
RestCount(analysis) ==
    IF analysis.rest_periods \in {"wrapped", "flat"}
    THEN Len(analysis.rest_list)
    ELSE 0

\* average_fatigue.toFixed(2), in hundredths, for a value in thousandths
toFixed2(thousandths) == (thousandths + 5) \div 10

\* variant: a missing fatigue section is shown as 0.00
AvgFatigueZeroWhenMissing(analysis) ==
    IF analysis.fatigue_analysis.present
       /\ analysis.fatigue_analysis.average_fatigue # Undef
    THEN [text |-> "number",
          hundredths |-> toFixed2(analysis.fatigue_analysis.average_fatigue)]
    ELSE [text |-> "number", hundredths |-> 0]

\* analysis.fatigue_analysis?.average_fatigue?.toFixed(2) || 'N/A'
AvgFatigue(analysis) ==
    IF analysis.fatigue_analysis.present
       /\ analysis.fatigue_analysis.average_fatigue # Undef
    THEN [text |-> "number",
          hundredths |-> toFixed2(analysis.fatigue_analysis.average_fatigue)]
    ELSE [text |-> "N/A", hundredths |-> Undef]

\* analysis.fatigue_analysis?.peak_fatigue_mile || 'N/A'
PeakMile(analysis) ==
    IF analysis.fatigue_analysis.present
       /\ Truthy(analysis.fatigue_analysis.peak_fatigue_mile)
    THEN [text |-> "number", mile |-> analysis.fatigue_analysis.peak_fatigue_mile]
    ELSE [text |-> "N/A", mile |-> Undef]

\* analysis.course_analysis?.strongest_terrain || 'Unknown'
StrongestTerrain(analysis) ==
    IF analysis.course_analysis.present
       /\ analysis.course_analysis.strongest_terrain # ""
    THEN analysis.course_analysis.strongest_terrain
    ELSE "Unknown"

\* analysis.course_analysis?.elevation_tolerance || 'Unknown'
ElevationTolerance(analysis) ==
    IF analysis.course_analysis.present
       /\ analysis.course_analysis.elevation_tolerance # ""
    THEN analysis.course_analysis.elevation_tolerance
    ELSE "Unknown"

\* the record of a runner as the table reads it: the sections of details
\* and the rest list kept in analyses
AnalysisOf(runnerId) ==
    [fatigue_analysis |-> details[runnerId].fatigue_analysis,
     course_analysis |-> details[runnerId].course_analysis,
     rest_periods |-> details[runnerId].rest_periods,
     rest_list |-> analyses[runnerId]]

\* one <tr> of the table
TableRow(runnerId) ==
    IF runnerId \notin DOMAIN analyses
    THEN [runnerId |-> runnerId, available |-> FALSE,
          avgFatigue |-> [text |-> "", hundredths |-> Undef],
          peakMile |-> [text |-> "", mile |-> Undef],
          restCount |-> Undef, strongestTerrain |-> "",
          elevationTolerance |-> ""]
    ELSE [runnerId |-> runnerId, available |-> TRUE,
          avgFatigue |-> AvgFatigue(AnalysisOf(runnerId)),
          peakMile |-> PeakMile(AnalysisOf(runnerId)),
          restCount |-> RestCount(AnalysisOf(runnerId)),
          strongestTerrain |-> StrongestTerrain(AnalysisOf(runnerId)),
          elevationTolerance |-> ElevationTolerance(AnalysisOf(runnerId))]

----------------------------------------------------------------------------
(* Segments: updateSegmentTable and the critical segments of              *)
(* #updateRecommendationsMultiRunner.  A mean is the exact fraction       *)
(* <<sum, count>>.  Segment names are non-numeric strings, so the keys of *)
(* segmentStats are enumerated in insertion order.                       *)

\* analysis?.course_analysis?.segment_analysis is there (an empty list is)
HasSegmentAnalysis(runnerId) ==
    /\ runnerId \in DOMAIN details
    /\ details[runnerId].course_analysis.present
    /\ details[runnerId].course_analysis.has_segments

SegmentAnalysisOf(runnerId) ==
    IF HasSegmentAnalysis(runnerId)
    THEN details[runnerId].course_analysis.segment_analysis
    ELSE <<>>

\* Object.values(this.analyses)[0]?.course_analysis?.segment_analysis: the
\* keys of this.analyses are runner ids, enumerated in ascending order
CourseSegments ==
    IF DOMAIN analyses = {} THEN <<>>
    ELSE SegmentAnalysisOf(CHOOSE r \in DOMAIN analyses :
                               \A q \in DOMAIN analyses : r <= q)

\* segment_analysis.find(s => s.segment_name === name), as a list of at most
\* one segment
RECURSIVE FindSegment(_, _)
FindSegment(segments, name) ==
    IF segments = <<>> THEN <<>>
    ELSE IF segments[1].segment_name = name THEN <<segments[1]>>
    ELSE FindSegment(Tail(segments), name)

\* the j-th selected runner's record of the segment, as a list of at most one
RunnerSegment(name, j) ==
    FindSegment(SegmentAnalysisOf(selectedRunners[j]), name)

\* variant: every record of the segment is counted, a pace of 0 included
RECURSIVE AllPacesWithZero(_, _)
AllPacesWithZero(name, j) ==
    IF j > Len(selectedRunners) THEN <<>>
    ELSE IF RunnerSegment(name, j) # <<>>
         THEN <<IF RunnerSegment(name, j)[1].average_pace > 0
                THEN RunnerSegment(name, j)[1].average_pace ELSE 0>>
              \o AllPacesWithZero(name, j + 1)
         ELSE AllPacesWithZero(name, j + 1)

\* allPaces: runnerSegment.average_pace of the selected runners, from the
\* j-th on, whose record of the segment exists and has average_pace > 0
RECURSIVE AllPaces(_, _)
AllPaces(name, j) ==
    IF j > Len(selectedRunners) THEN <<>>
    ELSE IF /\ RunnerSegment(name, j) # <<>>
            /\ RunnerSegment(name, j)[1].average_pace > 0
         THEN <<RunnerSegment(name, j)[1].average_pace>>
              \o AllPaces(name, j + 1)
         ELSE AllPaces(name, j + 1)

RECURSIVE SumSeq(_)
SumSeq(s) == IF s = <<>> THEN 0 ELSE s[1] + SumSeq(Tail(s))

\* allPaces.length > 0 ? sum / length : 0
AvgPace(name) ==
    IF Len(AllPaces(name, 1)) > 0
    THEN <<SumSeq(AllPaces(name, 1)), Len(AllPaces(name, 1))>>
    ELSE <<0, 1>>

\* avgPace > 0 ? avgPace.toFixed(1) + ' min/mi' : 'N/A'
PaceCell(avgPace) ==
    IF avgPace[1] > 0
    THEN [text |-> "min/mi", tenths |-> toFixed1(avgPace)]
    ELSE [text |-> "N/A", tenths |-> Undef]

\* one <tr> per course segment
SegmentRows(courseSegments) ==
    [i \in 1..Len(courseSegments) |->
        [segment_name |-> courseSegments[i].segment_name,
         avgPace |-> AvgPace(courseSegments[i].segment_name),
         paceCell |-> PaceCell(AvgPace(courseSegments[i].segment_name))]]

\* x || 0 for a numeric field
OrZero(n) == IF Truthy(n) THEN n ELSE 0

\* variant: the runners 1 and 2 are read whether they are selected or not
RECURSIVE SegmentPerformancesOfAllRunners(_, _)
SegmentPerformancesOfAllRunners(selected, j) ==
    IF j > 2 THEN <<>>
    ELSE [i \in 1..Len(SegmentAnalysisOf(j)) |->
             [name |-> SegmentAnalysisOf(j)[i].segment_name,
              difficulty |-> OrZero(SegmentAnalysisOf(j)[i].difficulty_rating),
              performance |-> OrZero(SegmentAnalysisOf(j)[i].performance_score),
              runnerId |-> j]]
         \o SegmentPerformancesOfAllRunners(selected, j + 1)

\* segmentPerformances of the runners selected[j..]: one entry per segment
\* record of every runner that has a segment analysis
RECURSIVE SegmentPerformances(_, _)
SegmentPerformances(selected, j) ==
    IF j > Len(selected) THEN <<>>
    ELSE [i \in 1..Len(SegmentAnalysisOf(selected[j])) |->
             [name |-> SegmentAnalysisOf(selected[j])[i].segment_name,
              difficulty |->
                  OrZero(SegmentAnalysisOf(selected[j])[i].difficulty_rating),
              performance |->
                  OrZero(SegmentAnalysisOf(selected[j])[i].performance_score),
              runnerId |-> selected[j]]]
         \o SegmentPerformances(selected, j + 1)

\* segmentStats after the entries perfs[i..]: difficulties and performances
\* are kept as sums; a new name is appended after the known ones
RECURSIVE SegmentStats(_, _, _)
SegmentStats(perfs, i, stats) ==
    IF i > Len(perfs) THEN stats
    ELSE LET known == {k \in 1..Len(stats) : stats[k].name = perfs[i].name}
             base == IF known = {}
                     THEN Append(stats, [name |-> perfs[i].name,
                                         difficulties |-> 0,
                                         performances |-> 0, count |-> 0])
                     ELSE stats
             at == CHOOSE k \in 1..Len(base) : base[k].name = perfs[i].name
         IN  SegmentStats(perfs, i + 1,
                 [base EXCEPT
                     ![at].difficulties = @ + perfs[i].difficulty,
                     ![at].performances = @ + perfs[i].performance,
                     ![at].count = @ + 1])

\* the .map(...) over Object.entries(segmentStats)
SegmentMeans(stats) ==
    [k \in 1..Len(stats) |->
        [name |-> stats[k].name,
         avgDifficulty |-> <<stats[k].difficulties, stats[k].count>>,
         avgPerformance |-> <<stats[k].performances, stats[k].count>>,
         count |-> stats[k].count]]

\* b.avgDifficulty - a.avgDifficulty < 0 for the means a and b
MeanGreater(a, b) == a[1] * b[2] > b[1] * a[2]

\* insert a segment into a list sorted by descending avgDifficulty, behind
\* the entries of equal difficulty (Array.prototype.sort is stable)
RECURSIVE InsertByDifficulty(_, _)
InsertByDifficulty(segment, sorted) ==
    IF sorted = <<>> THEN <<segment>>
    ELSE IF MeanGreater(segment.avgDifficulty, sorted[1].avgDifficulty)
         THEN <<segment>> \o sorted
         ELSE <<sorted[1]>> \o InsertByDifficulty(segment, Tail(sorted))

\* variant: the segments stay in first-encountered order
SortByDifficultySkipped(segments) == segments

\* .sort((a, b) => b.avgDifficulty - a.avgDifficulty)
RECURSIVE SortByDifficulty(_)
SortByDifficulty(segments) ==
    IF segments = <<>> THEN <<>>
    ELSE InsertByDifficulty(segments[Len(segments)],
             SortByDifficulty(SubSeq(segments, 1, Len(segments) - 1)))

\* variant: the ranking is not cut
TopCriticalUncut(segments) == segments

\* .slice(0, 5)
TopCritical(segments) ==
    SubSeq(segments, 1, IF Len(segments) < CriticalSegmentLimit
                        THEN Len(segments) ELSE CriticalSegmentLimit)

\* criticalSegments for a given order of the selected runners
CriticalSegments(selected) ==
    TopCritical(SortByDifficulty(SegmentMeans(
        SegmentStats(SegmentPerformances(selected, 1), 1, <<>>))))

----------------------------------------------------------------------------
(* Inputs *)

\* the sections of one runner's analysis other than the rest list
FatigueSection(present, avg, peak, points) ==
    [present |-> present, average_fatigue |-> avg,
     peak_fatigue_mile |-> peak, fatigue_progression |-> points]

CourseSection(present, terrain, tolerance, hasSegments, segments) ==
    [present |-> present, strongest_terrain |-> terrain,
     elevation_tolerance |-> tolerance, has_segments |-> hasSegments,
     segment_analysis |-> segments]

Segment(name, difficulty, performance, pace) ==
    [segment_name |-> name, difficulty_rating |-> difficulty,
     performance_score |-> performance, average_pace |-> pace]

NoFatigue == FatigueSection(FALSE, Undef, Undef, Undef)

NoCourse == CourseSection(FALSE, "", "", FALSE, <<>>)

\* an analysis with a flat rest list and nothing else, as the requests of
\* Init and InitSelect have it
PlainDetails ==
    [fatigue_analysis |-> NoFatigue, rest_periods |-> "flat",
     course_analysis |-> NoCourse]

Rest(m, sm, st, c, pd, ap) ==
    [mile |-> m, start_mile |-> sm, nearby_aid_station |-> st,
     confidence |-> c, pace_during |-> pd, actual_pace |-> ap]

\* rest periods that differ in location and aid station
ClusterRests ==
    {Rest(m, Undef, "A", "", Undef, Undef) : m \in {0, 1, 6, 8, 10}}
    \cup {Rest(Undef, Undef, "", "", Undef, Undef),
          Rest(Undef, 1, "", "", Undef, Undef),
          Rest(0, 8, "", "", Undef, Undef)}

\* rest periods at one aid station that differ in confidence and pace
CandidateRests ==
    {Rest(m, Undef, "A", c, p[1], p[2]) :
        m \in {6, 10}, c \in {"high", "medium", "low", ""},
        p \in {<<Undef, Undef>>, <<Undef, 7>>, <<3, 9>>}}

\* duplicate-free selections, as the Runners selection keeps them
Selections == {<<>>, <<1>>, <<2>>, <<1, 2>>, <<2, 1>>}

\* no earlier run of the rest list is remembered
NoRun ==
    [done |-> FALSE, between |-> FALSE, runs |-> 0, selectedRunners |-> <<>>,
     analyses |-> <<>>, restGroups |-> <<>>, rows |-> <<>>, container |-> ""]

\* the Runners page before any card is clicked; alert, error and callbacks
\* describe the last operation
RunnersPageIdle ==
    [op |-> [name |-> "", runnerId |-> 0], selectedCards |-> {},
     alert |-> "", error |-> "", callbacks |-> 0,
     button |-> [disabled |-> TRUE, innerHTML |-> ""]]

\* the dashboard after page load: let selectedAthletes = new Set().  The
\* Set holds objects, so it is kept as the sequence of its entries in
\* insertion order; notification and error describe the last operation
DashboardIdle ==
    [op |-> [name |-> "", athleteId |-> [type |-> "", value |-> 0]],
     selectedAthletes |-> <<>>, notification |-> "", error |-> "",
     panel |-> [display |-> "none", disabled |-> TRUE, count |-> 0],
     location |-> ""]

\* no call of fetchWithRetry is under way
FetcherIdle ==
    [pc |-> "idle", maxRetries |-> 0, i |-> 0, outcomes |-> <<>>,
     waits |-> <<>>, result |-> "", error |-> ""]

\* the pages and calls a comparison does not touch
PagesIdle ==
    /\ firstRun = NoRun
    /\ runnersPage = RunnersPageIdle
    /\ dashboard = DashboardIdle
    /\ fetcher = FetcherIdle

\* #updateRestPeriodsListMultiRunner is entered
StartState ==
    /\ pc = "start"
    /\ allRunnerRestPeriods = <<>>
    /\ idx = 1
    /\ restGroups = <<>>
    /\ rows = <<>>
    /\ container = ""
    /\ payload = [status |-> "success", error |-> ""]
    /\ runnerAnalyses = [status |-> "success", error |-> ""]
    /\ hasSelection = TRUE
    /\ stage = "rest"
    /\ thrown = ""
    /\ multiRunnerTable = <<>>
    /\ fatigueChart = [message |-> "", datasets |-> <<>>]
    /\ segmentTable = [message |-> "", rows |-> <<>>]
    /\ criticalSegments = <<>>
    /\ stored = TRUE
    /\ PagesIdle

\* up to MaxRests rest periods split between the two runners, compared in
\* either order; a runner may also be missing from the analyses map, and
\* shorter selections are tried on requests of at most one rest period
Init ==
    /\ StartState
    /\ \E n \in 0..MaxRests : \E s \in [1..n -> ClusterRests] : \E k \in 0..n :
          /\ \/ selectedRunners \in {<<1, 2>>, <<2, 1>>}
             \/ n <= 1 /\ selectedRunners \in Selections
          /\ \/ analyses = (1 :> SubSeq(s, 1, k)) @@ (2 :> SubSeq(s, k + 1, n))
             \/ k = n /\ analyses = (1 :> s)
             \/ n = 0 /\ analyses = <<>>
    /\ details = [id \in DOMAIN analyses |-> PlainDetails]

\* up to MaxCandidates rest periods of runner 1 at one aid station; runner 2
\* has none, or comes first with one rest period that shifts the group's mean
InitSelect ==
    /\ StartState
    /\ \E n \in 0..MaxCandidates : \E s \in [1..n -> CandidateRests] :
          \/ /\ selectedRunners = <<1, 2>>
             /\ analyses = (1 :> s) @@ (2 :> <<>>)
          \/ /\ selectedRunners = <<2, 1>>
             /\ analyses = (1 :> s)
                    @@ (2 :> <<Rest(10, Undef, "A", "", Undef, Undef)>>)
          \/ /\ n = 0
             /\ selectedRunners \in Selections
             /\ analyses \in {<<>>, (1 :> <<>>)}
    /\ details = [id \in DOMAIN analyses |-> PlainDetails]

SegmentNames == <<"S1", "S2", "S3", "S4", "S5", "S6", "S7", "S8">>

\* what runner 1 may report for the i-th course segment: nothing, a record
\* without ratings and with pace 0, or a fully rated record
Report1(i, choice) ==
    CASE choice = 0 -> <<>>
      [] choice = 1 -> <<Segment(SegmentNames[i], Undef, Undef, 0)>>
      [] choice = 2 -> <<Segment(SegmentNames[i], 4, 6, 10)>>

\* what runner 2 may report for it: nothing, or a fully rated record
Report2(i, choice) ==
    IF choice = 0 THEN <<>> ELSE <<Segment(SegmentNames[i], 4, 9, 8)>>

\* the reports of the course segments i..CourseLength in course order
RECURSIVE Flatten(_, _)
Flatten(reports, i) ==
    IF i > CourseLength THEN <<>>
    ELSE reports[i] \o Flatten(reports, i + 1)

\* the ways a runner's sections other than segments may be filled
SectionProfiles ==
    {[fatigue_analysis |-> NoFatigue, course_analysis |-> NoCourse],
     [fatigue_analysis |-> NoFatigue,
      course_analysis |-> CourseSection(TRUE, "uphill", "", TRUE,
                              <<Segment("S1", 4, 6, 10)>>)],
     [fatigue_analysis |-> FatigueSection(TRUE, 0, 0, 0),
      course_analysis |-> CourseSection(TRUE, "", "high", FALSE, <<>>)],
     [fatigue_analysis |-> FatigueSection(TRUE, 1236, 40, 2),
      course_analysis |-> NoCourse]}

\* the rest lists of one runner in the requests of InitComparison
RunnerRestLists ==
    UNION {[1..n -> {Rest(6, Undef, "A", "", Undef, Undef),
                     Rest(10, Undef, "A", "", Undef, Undef)}] :
              n \in 0..MaxRunnerRests}

\* how rest_periods arrives: a flat list, an object wrapping the list, an
\* object that wraps no list, or not at all
RestShapes ==
    {<<"flat", l>> : l \in RunnerRestLists}
    \cup {<<"wrapped", l>> : l \in RunnerRestLists}
    \cup {<<"malformed", <<>>>>, <<"none", <<>>>>}

Payloads ==
    {[status |-> "success", error |-> ""],
     [status |-> "failed", error |-> ""],
     [status |-> "failed", error |-> "Analysis service unavailable"]}

\* before new RunnerAnalyses(payload) and init(analyses, runners)
IdleState ==
    /\ pc = "idle"
    /\ stage = "payload"
    /\ runnerAnalyses = [status |-> "", error |-> ""]
    /\ thrown = ""
    /\ allRunnerRestPeriods = <<>>
    /\ idx = 1
    /\ restGroups = <<>>
    /\ rows = <<>>
    /\ container = ""
    /\ multiRunnerTable = <<>>
    /\ fatigueChart = [message |-> "", datasets |-> <<>>]
    /\ segmentTable = [message |-> "", rows |-> <<>>]
    /\ criticalSegments = <<>>
    /\ stored = FALSE
    /\ PagesIdle

\* a request whose runners differ in whether they have an entry, in the
\* sections of the entry and in the shape of the rest data
InitComparison ==
    /\ IdleState
    /\ payload \in Payloads
    /\ \/ hasSelection = TRUE /\ selectedRunners \in Selections
       \/ hasSelection = FALSE /\ selectedRunners = <<>>
    /\ \E present \in SUBSET {1, 2} :
          \E p \in [present -> SectionProfiles] :
             \E r \in [present -> RestShapes] :
                /\ analyses = [id \in present |-> r[id][2]]
                /\ details = [id \in present |->
                       [fatigue_analysis |-> p[id].fatigue_analysis,
                        rest_periods |-> r[id][1],
                        course_analysis |-> p[id].course_analysis]]

\* an entry with a segment analysis and nothing else but the given rest data
WithSegments(segments, shape) ==
    [fatigue_analysis |-> NoFatigue, rest_periods |-> shape,
     course_analysis |-> CourseSection(TRUE, "", "", TRUE, segments)]

\* a request over a course of CourseLength segments: runner 1 reports each
\* segment or not, runner 2 reports the first k segments (a runner who left
\* the race has no record of the later ones), both are selected.  When only
\* the first two segments are reported, the payload, the selection, the
\* second runner's entry and the first runner's rest data vary as well.
InitSegments ==
    /\ IdleState
    /\ \E c1 \in [1..CourseLength -> 0..2] :
          \E k \in 0..CourseLength :
             \E seg1 \in {Flatten([i \in 1..CourseLength |->
                                       Report1(i, c1[i])], 1)} :
                \E seg2 \in {Flatten([i \in 1..CourseLength |->
                                          Report2(i, IF i <= k THEN 1 ELSE 0)], 1)} :
                   \/ /\ payload = [status |-> "success", error |-> ""]
                      /\ hasSelection = TRUE
                      /\ selectedRunners = <<1, 2>>
                      /\ analyses = (1 :> <<>>) @@ (2 :> <<>>)
                      /\ details = (1 :> WithSegments(seg1, "none"))
                                       @@ (2 :> WithSegments(seg2, "none"))
                   \/ /\ k <= 2 /\ \A i \in 3..CourseLength : c1[i] = 0
                      /\ payload \in Payloads
                      /\ hasSelection = TRUE
                      /\ selectedRunners \in Selections
                      /\ \E r \in {<<"none", <<>>>>, <<"malformed", <<>>>>,
                                   <<"flat", <<Rest(6, Undef, "A", "",
                                                    Undef, Undef)>>>>} :
                            \/ /\ analyses = (1 :> r[2]) @@ (2 :> <<>>)
                               /\ details = (1 :> WithSegments(seg1, r[1]))
                                      @@ (2 :> WithSegments(seg2, "none"))
                            \/ /\ k = 0
                               /\ analyses = (1 :> r[2]) @@ (2 :> <<>>)
                               /\ details = (1 :> WithSegments(seg1, r[1]))
                                      @@ (2 :> [fatigue_analysis |-> NoFatigue,
                                                rest_periods |-> "none",
                                                course_analysis |-> NoCourse])
                            \/ /\ k = 0
                               /\ analyses = (1 :> r[2])
                               /\ details = (1 :> WithSegments(seg1, r[1]))

----------------------------------------------------------------------------
(* #updateRestPeriodsListMultiRunner, stage by stage *)

\* the early returns for missing analyses and an empty selection
NoData ==
    /\ pc = "start"
    /\ DOMAIN analyses = {} \/ Len(selectedRunners) = 0
    /\ container' = IF DOMAIN analyses = {}
                    THEN "No analysis data available"
                    ELSE "No runners selected"
    /\ pc' = "done"
    /\ UNCHANGED <<selectedRunners, analyses, allRunnerRestPeriods, idx,
                   restGroups, rows>>
    /\ UNCHANGED initVars

\* variant: the runner's own list is the array that is sorted
RestListSortedInPlace(runnerId) == SortByMile(analyses[runnerId])

\* the runner's own list after the collection: filter returns a new array,
\* {...rest, runnerId, runnerName} a new object, and the sort acts on
\* allRunnerRestPeriods, so the list is as it was
RestListAfterCollect(runnerId) == analyses[runnerId]

\* collect, filter and tag every selected runner's rest periods, then sort
CollectRestPeriods ==
    /\ pc = "start"
    /\ DOMAIN analyses # {}
    /\ Len(selectedRunners) # 0
    /\ \A j \in 1..Len(selectedRunners) :
          ~MalformedRestData(selectedRunners[j])
    /\ allRunnerRestPeriods' = SortByMile(CollectFrom(1))
    /\ analyses' = [id \in DOMAIN analyses |-> RestListAfterCollect(id)]
    /\ idx' = 1
    /\ pc' = "group"
    /\ UNCHANGED <<selectedRunners, restGroups, rows, container>>
    /\ UNCHANGED initVars

\* one iteration of allRunnerRestPeriods.forEach(rest => ...)
GroupRest ==
    /\ pc = "group"
    /\ idx <= Len(allRunnerRestPeriods)
    /\ restGroups' = AddToGroups(allRunnerRestPeriods[idx], restGroups)
    /\ idx' = idx + 1
    /\ UNCHANGED <<selectedRunners, analyses, pc, allRunnerRestPeriods, rows,
                   container>>
    /\ UNCHANGED initVars

\* restGroups.sort(...) once every rest period is grouped
SortRestGroups ==
    /\ pc = "group"
    /\ idx > Len(allRunnerRestPeriods)
    /\ restGroups' = SortGroups(restGroups)
    /\ idx' = 1
    /\ pc' = "render"
    /\ UNCHANGED <<selectedRunners, analyses, allRunnerRestPeriods, rows,
                   container>>
    /\ UNCHANGED initVars

\* restGroups.length === 0
RenderNoGroups ==
    /\ pc = "render"
    /\ Len(restGroups) = 0
    /\ container' = "No rest period data available for selected runners"
    /\ pc' = "done"
    /\ UNCHANGED <<selectedRunners, analyses, allRunnerRestPeriods, idx,
                   restGroups, rows>>
    /\ UNCHANGED initVars

\* one row of the visible (first three) or hidden groups
RenderGroup ==
    /\ pc = "render"
    /\ idx <= Len(restGroups)
    /\ rows' = Append(rows, [groupIndex |-> idx - 1,
                             hidden |-> idx > VisibleGroups,
                             cards |-> RowCards(restGroups[idx])])
    /\ idx' = idx + 1
    /\ UNCHANGED <<selectedRunners, analyses, pc, allRunnerRestPeriods,
                   restGroups, container>>
    /\ UNCHANGED initVars

\* container.innerHTML = html
ShowRows ==
    /\ pc = "render"
    /\ Len(restGroups) > 0
    /\ idx > Len(restGroups)
    /\ container' = "rows"
    /\ pc' = "done"
    /\ UNCHANGED <<selectedRunners, analyses, allRunnerRestPeriods, idx,
                   restGroups, rows>>
    /\ UNCHANGED initVars

Next ==
    \/ NoData
    \/ CollectRestPeriods
    \/ GroupRest
    \/ SortRestGroups
    \/ RenderNoGroups
    \/ RenderGroup
    \/ ShowRows

Spec == Init /\ [][Next]_vars

SpecSelect == InitSelect /\ [][Next]_vars

----------------------------------------------------------------------------
(* The rest list built again by the same instance *)

\* the requests of the repeated runs
RepeatRequests ==
    {[selectedRunners |-> sel, analyses |-> a] :
        sel \in {<<1, 2>>, <<2, 1>>},
        a \in {(1 :> l1) @@ (2 :> l2) :
                  l1 \in {<<>>,
                          <<Rest(6, Undef, "A", "", Undef, Undef)>>,
                          <<Rest(10, Undef, "A", "high", 3, Undef),
                            Rest(6, Undef, "A", "", Undef, Undef)>>,
                          <<Rest(6, Undef, "A", "", Undef, Undef),
                            Rest(30, Undef, "B", "", Undef, Undef)>>},
                  l2 \in {<<>>, <<Rest(8, Undef, "A", "", Undef, Undef)>>}}
              \cup {<<>>}}

InitRepeat ==
    /\ StartState
    /\ \E request \in RepeatRequests :
          /\ selectedRunners = request.selectedRunners
          /\ analyses = request.analyses
    /\ details = [id \in DOMAIN analyses |-> PlainDetails]

\* variant: the clusters of the previous run are still there
StaleGroups == restGroups

\* const restGroups = []
FreshGroups == <<>>

\* the method has returned and is called again, after init replaced
\* this.runners and this.analyses: its arrays and its html are new, the
\* container keeps what the last run wrote.  The first finished run is
\* remembered for comparison
CompareAgain ==
    /\ pc = "done"
    /\ firstRun.runs + 1 < MaxRuns
    /\ \E request \in RepeatRequests :
          /\ selectedRunners' = request.selectedRunners
          /\ analyses' = request.analyses
          /\ details' = [id \in DOMAIN request.analyses |-> PlainDetails]
    /\ firstRun' =
           IF firstRun.done
           THEN [firstRun EXCEPT
                    !.runs = @ + 1,
                    !.between = @ \/ selectedRunners # firstRun.selectedRunners
                                  \/ analyses # firstRun.analyses]
           ELSE [done |-> TRUE, between |-> FALSE, runs |-> 1,
                 selectedRunners |-> selectedRunners, analyses |-> analyses,
                 restGroups |-> restGroups, rows |-> rows,
                 container |-> container]
    /\ allRunnerRestPeriods' = <<>>
    /\ restGroups' = FreshGroups
    /\ rows' = <<>>
    /\ idx' = 1
    /\ pc' = "start"
    /\ UNCHANGED <<container, payload, runnerAnalyses, hasSelection, stage,
                   thrown, outputs, stored, runnersPage, dashboard, fetcher>>

NextRepeat ==
    \/ NoData
    \/ CollectRestPeriods
    \/ GroupRest
    \/ SortRestGroups
    \/ RenderNoGroups
    \/ RenderGroup
    \/ ShowRows
    \/ CompareAgain

SpecRepeat == InitRepeat /\ [][NextRepeat]_vars

----------------------------------------------------------------------------
(* The Runners page: Runners.#selectRunner, Runners.clearSelections and    *)
(* AnalysisButton.update                                                   *)

\* everything a comparison reads or writes, but the selection
comparisonVars == <<analyses, pc, allRunnerRestPeriods, idx, restGroups, rows,
                    container, payload, runnerAnalyses, hasSelection, details,
                    stage, thrown, outputs, stored, firstRun>>

\* the runners of allRunners, each shown as a card
RunnerIds == 1..MaxRunners

\* an id that the setter may be given and that no card carries
UnknownRunner == 0

\* document.querySelector(`[data-runner-id="${runnerId}"]`) finds a card
HasCard(runnerId) == runnerId \in RunnerIds

\* variant: only the last selected id is looked at
IncludesLast(selected, runnerId) ==
    Len(selected) > 0 /\ selected[Len(selected)] = runnerId

\* this.#selectedRunners.includes(runnerId)
Includes(selected, runnerId) ==
    \E i \in 1..Len(selected) : selected[i] = runnerId

\* variant: the last selected id is dropped
WithoutLast(selected, runnerId) == SubSeq(selected, 1, Len(selected) - 1)

\* this.#selectedRunners.filter(id => id !== runnerId)
Without(selected, runnerId) == SelectSeq(selected, LAMBDA id : id # runnerId)

\* variant: the limit is compared with <=
CanAddOneMore(selected) == Len(selected) <= SelectionLimit

\* this.#selectedRunners.length < 5
CanAdd(selected) == Len(selected) < SelectionLimit

\* a click on a card or an assignment to runners.selectedRunners.  The
\* selection is changed before the card's class list is touched: without a
\* card that access throws and the callback is not reached
selectRunner ==
    \E runnerId \in RunnerIds \cup {UnknownRunner} :
        LET included == Includes(selectedRunners, runnerId)
            refused == ~included /\ ~CanAdd(selectedRunners)
            threw == ~refused /\ ~HasCard(runnerId)
        IN  /\ selectedRunners' =
                   IF included THEN Without(selectedRunners, runnerId)
                   ELSE IF refused THEN selectedRunners
                   ELSE Append(selectedRunners, runnerId)
            /\ runnersPage' =
                   [runnersPage EXCEPT
                      !.op = [name |-> "selectRunner", runnerId |-> runnerId],
                      !.selectedCards =
                          IF refused \/ threw THEN @
                          ELSE IF included THEN @ \ {runnerId}
                          ELSE @ \cup {runnerId},
                      !.alert =
                          IF refused
                          THEN "Maximum 5 runners can be selected for comparison"
                          ELSE "",
                      !.error =
                          IF threw THEN "TypeError: card is null" ELSE "",
                      !.callbacks = IF refused \/ threw THEN 0 ELSE 1]
            /\ UNCHANGED <<comparisonVars, dashboard, fetcher>>

clearSelections ==
    /\ selectedRunners' = <<>>
    /\ runnersPage' =
           [runnersPage EXCEPT
              !.op = [name |-> "clearSelections", runnerId |-> 0],
              !.selectedCards = {},
              !.alert = "",
              !.error = "",
              !.callbacks = 1]
    /\ UNCHANGED <<comparisonVars, dashboard, fetcher>>

\* variant: one selected runner is labelled as a comparison
ButtonLabelCompareFromOne(n) ==
    IF n = 0 THEN "Run Advanced Analysis"
    ELSE "Compare " \o ToString(n) \o " Runners"

\* the switch on runners.selectedRunners.length, without the icon
ButtonLabel(n) ==
    CASE n = 0 -> "Run Advanced Analysis"
      [] n = 1 -> "Run Single Runner Analysis"
      [] OTHER -> "Compare " \o ToString(n) \o " Runners"

\* AnalysisButton.update(runners)
update ==
    /\ runnersPage' =
           [runnersPage EXCEPT
              !.op = [name |-> "update", runnerId |-> 0],
              !.alert = "",
              !.error = "",
              !.callbacks = 0,
              !.button = [disabled |-> Len(selectedRunners) = 0,
                          innerHTML |-> ButtonLabel(Len(selectedRunners))]]
    /\ UNCHANGED <<selectedRunners, comparisonVars, dashboard, fetcher>>

\* a page on which nothing is selected and no comparison has been run
InitRunners ==
    /\ IdleState
    /\ selectedRunners = <<>>
    /\ analyses = <<>>
    /\ details = <<>>
    /\ payload = [status |-> "success", error |-> ""]
    /\ hasSelection = TRUE

NextRunners ==
    \/ selectRunner
    \/ clearSelections
    \/ update

SpecRunners == InitRunners /\ [][NextRunners]_vars

----------------------------------------------------------------------------
(* The dashboard's quick comparison: addToComparison,                      *)
(* removeFromComparison, clearComparison and runComparison                 *)

\* athlete ids as the callers pass them: the number, or the string that
\* the panel's remove button is rendered with
AthleteIds ==
    {[type |-> t, value |-> v] : t \in {"number", "string"},
                                 v \in 1..MaxAthletes}

AthleteName(athleteId) == "Athlete " \o ToString(athleteId.value)

\* variant: the list is full only beyond the limit
ComparisonOverfull(athletes) == Len(athletes) > ComparisonLimit

\* selectedAthletes.size >= 5
ComparisonFull(athletes) == Len(athletes) >= ComparisonLimit

\* selectedAthletes.size < 2
TooFewToCompare(athletes) == Len(athletes) < MinCompared

\* updateComparisonPanel: an empty list hides the panel and leaves the
\* compare button as it was
PanelAfter(panel, athletes) ==
    IF Len(athletes) = 0 THEN [panel EXCEPT !.display = "none"]
    ELSE [display |-> "block", disabled |-> Len(athletes) < MinCompared,
          count |-> Len(athletes)]

\* athleteIds.map(id => `athletes=${id}`).join('&')
RECURSIVE Params(_)
Params(athletes) ==
    IF athletes = <<>> THEN ""
    ELSE "athletes=" \o ToString(athletes[1].id.value)
             \o (IF Len(athletes) > 1 THEN "&" ELSE "")
             \o Params(Tail(athletes))

\* the page is still shown: window.location.href has not been assigned
OnDashboard == dashboard.location = ""

\* addToComparison(athleteId, athleteName): Set.add of a new object adds
\* an entry whatever the Set holds.  Outside an event handler the global
\* event is undefined and the button animation throws after the add
addToComparison ==
    /\ OnDashboard
    /\ \E athleteId \in AthleteIds, inHandler \in BOOLEAN :
          LET full == ComparisonFull(dashboard.selectedAthletes)
              athletes == IF full THEN dashboard.selectedAthletes
                          ELSE Append(dashboard.selectedAthletes,
                                      [id |-> athleteId,
                                       name |-> AthleteName(athleteId)])
          IN  dashboard' =
                  [dashboard EXCEPT
                     !.op = [name |-> "addToComparison",
                             athleteId |-> athleteId],
                     !.selectedAthletes = athletes,
                     !.panel = IF full THEN @ ELSE PanelAfter(@, athletes),
                     !.notification =
                         IF full
                         THEN "Maximum 5 athletes can be compared at once"
                         ELSE "Added " \o AthleteName(athleteId)
                                  \o " to comparison",
                     !.error =
                         IF ~full /\ ~inHandler
                         THEN "TypeError: event is undefined"
                         ELSE ""]
    /\ UNCHANGED <<selectedRunners, comparisonVars, runnersPage, fetcher>>

\* removeFromComparison(athleteId): a.id !== athleteId is strict, a number
\* and the string of that number differ
removeFromComparison ==
    /\ OnDashboard
    /\ \E athleteId \in AthleteIds :
          LET athletes == SelectSeq(dashboard.selectedAthletes,
                                    LAMBDA a : a.id # athleteId)
          IN  dashboard' =
                  [dashboard EXCEPT
                     !.op = [name |-> "removeFromComparison",
                             athleteId |-> athleteId],
                     !.selectedAthletes = athletes,
                     !.panel = PanelAfter(@, athletes),
                     !.notification = "Athlete removed from comparison",
                     !.error = ""]
    /\ UNCHANGED <<selectedRunners, comparisonVars, runnersPage, fetcher>>

clearComparison ==
    /\ OnDashboard
    /\ dashboard' =
           [dashboard EXCEPT
              !.op = [name |-> "clearComparison",
                      athleteId |-> [type |-> "", value |-> 0]],
              !.selectedAthletes = <<>>,
              !.panel = PanelAfter(@, <<>>),
              !.notification = "Comparison cleared",
              !.error = ""]
    /\ UNCHANGED <<selectedRunners, comparisonVars, runnersPage, fetcher>>

\* runComparison: the assignment to window.location.href leaves the page
runComparison ==
    /\ OnDashboard
    /\ dashboard' =
           IF TooFewToCompare(dashboard.selectedAthletes)
           THEN [dashboard EXCEPT
                    !.op = [name |-> "runComparison",
                            athleteId |-> [type |-> "", value |-> 0]],
                    !.notification =
                        "Please select at least 2 athletes to compare",
                    !.error = ""]
           ELSE [dashboard EXCEPT
                    !.op = [name |-> "runComparison",
                            athleteId |-> [type |-> "", value |-> 0]],
                    !.panel = [@ EXCEPT !.disabled = TRUE],
                    !.error = "",
                    !.location =
                        "/compare?" \o Params(dashboard.selectedAthletes)]
    /\ UNCHANGED <<selectedRunners, comparisonVars, runnersPage, fetcher>>

InitDashboard == InitRunners

NextDashboard ==
    \/ addToComparison
    \/ removeFromComparison
    \/ clearComparison
    \/ runComparison

SpecDashboard == InitDashboard /\ [][NextDashboard]_vars

----------------------------------------------------------------------------
(* fetchWithRetry(url, maxRetries), one attempt per step *)

\* how one attempt may end: fetch rejects, the response is not ok, the
\* response is ok and response.json() rejects, or the body is parsed
Outcomes == {"rejected", "not ok", "ok, no JSON", "ok"}

\* response.ok
HttpOk(outcome) == outcome \in {"ok, no JSON", "ok"}

\* the try block reaches its return
Succeeds(outcome) == outcome = "ok"

\* the error that the catch block receives
ErrorOf(outcome) ==
    CASE outcome = "rejected" -> "TypeError: Failed to fetch"
      [] outcome = "not ok" -> "HTTP error! status: 500"
      [] outcome = "ok, no JSON" -> "SyntaxError: Unexpected token"
      [] OTHER -> ""

\* the parsed body of the k-th attempt
Body(k) == "body of attempt " \o ToString(k)

RECURSIVE Pow2(_)
Pow2(n) == IF n = 0 THEN 1 ELSE 2 * Pow2(n - 1)

\* 1000 * Math.pow(2, i)
Delay(i) == BaseDelay * Pow2(i)

\* the loop condition i < maxRetries
LoopContinues(i, maxRetries) == i < maxRetries

\* variant: the last attempt is looked for one iteration too late
IsLastAttemptLate(i, maxRetries) == i = maxRetries

\* i === maxRetries - 1
IsLastAttempt(i, maxRetries) == i = maxRetries - 1

\* the call: without an iteration the function returns undefined
fetchWithRetry ==
    /\ fetcher.pc = "idle"
    /\ \E maxRetries \in 0..MaxRetries :
          fetcher' =
              IF LoopContinues(0, maxRetries)
              THEN [fetcher EXCEPT !.pc = "fetching",
                                   !.maxRetries = maxRetries]
              ELSE [fetcher EXCEPT !.pc = "returned",
                                   !.maxRetries = maxRetries,
                                   !.result = "undefined"]
    /\ UNCHANGED <<selectedRunners, comparisonVars, runnersPage, dashboard>>

\* await fetch(url) settles and the iteration runs up to its return, its
\* rethrow or its setTimeout
attempt ==
    /\ fetcher.pc = "fetching"
    /\ \E outcome \in Outcomes :
          LET k == Len(fetcher.outcomes) + 1
              tried == [fetcher EXCEPT !.outcomes = Append(@, outcome)]
          IN  fetcher' =
                  IF Succeeds(outcome)
                  THEN [tried EXCEPT !.pc = "returned", !.result = Body(k)]
                  ELSE IF IsLastAttempt(fetcher.i, fetcher.maxRetries)
                  THEN [tried EXCEPT !.pc = "thrown",
                                     !.error = ErrorOf(outcome)]
                  ELSE [tried EXCEPT !.pc = "waiting",
                                     !.error = ErrorOf(outcome),
                                     !.waits = Append(@, Delay(fetcher.i))]
    /\ UNCHANGED <<selectedRunners, comparisonVars, runnersPage, dashboard>>

\* the timer fires: i++ and the loop condition
retry ==
    /\ fetcher.pc = "waiting"
    /\ fetcher' =
           IF LoopContinues(fetcher.i + 1, fetcher.maxRetries)
           THEN [fetcher EXCEPT !.pc = "fetching", !.i = @ + 1]
           ELSE [fetcher EXCEPT !.pc = "returned", !.i = @ + 1,
                                !.result = "undefined"]
    /\ UNCHANGED <<selectedRunners, comparisonVars, runnersPage, dashboard>>

InitFetch == InitRunners

NextFetch ==
    \/ fetchWithRetry
    \/ attempt
    \/ retry

SpecFetch == InitFetch /\ [][NextFetch]_vars

\* the call is made, every fetch settles and every timer fires
SpecFetchFair ==
    /\ SpecFetch
    /\ WF_vars(fetchWithRetry)
    /\ WF_vars(attempt)
    /\ WF_vars(retry)

----------------------------------------------------------------------------
(* MutipleRunnerAnalysis.init(analyses, runners), stage by stage.  The     *)
(* Chart.js canvases are drawn from the same data and are represented only *)
(* by the runners whose fatigue data is plotted.                           *)

\* new RunnerAnalyses(payload): #validateInputs reads the status of the
\* runner map, which has runner ids as its only keys, so it does not throw;
\* status is kept, the payload's error is not
ConstructRunnerAnalyses ==
    /\ stage = "payload"
    /\ runnerAnalyses' = [status |-> payload.status, error |-> ""]
    /\ stage' = "init"
    /\ UNCHANGED <<stored, pageVars>>
    /\ UNCHANGED <<restVars, payload, hasSelection, details, thrown,
                   outputs>>

\* BaseRunnerAnalysis.#validateInputs throws
validateInputsThrows ==
    /\ stage = "init"
    /\ ~hasSelection \/ runnerAnalyses.status = "failed"
    /\ thrown' = IF ~hasSelection THEN "Missing runner data"
                 ELSE IF runnerAnalyses.error # "" THEN runnerAnalyses.error
                 ELSE "Analysis failed"
    /\ stage' = "failed"
    /\ UNCHANGED <<stored, pageVars>>
    /\ UNCHANGED <<restVars, payload, runnerAnalyses, hasSelection, details,
                   outputs>>

\* BaseRunnerAnalysis.init after a passed validation
BaseInit ==
    /\ stage = "init"
    /\ hasSelection
    /\ runnerAnalyses.status # "failed"
    /\ stage' = "table"
    /\ stored' = TRUE
    /\ UNCHANGED pageVars
    /\ UNCHANGED <<restVars, payload, runnerAnalyses, hasSelection, details,
                   thrown, outputs>>

updateMultiRunnerTable ==
    /\ stage = "table"
    /\ multiRunnerTable' =
           [j \in 1..Len(selectedRunners) |-> TableRow(selectedRunners[j])]
    /\ stage' = "chart"
    /\ UNCHANGED <<stored, pageVars>>
    /\ UNCHANGED <<restVars, payload, runnerAnalyses, hasSelection, details,
                   thrown, fatigueChart, segmentTable, criticalSegments>>

\* datasets whose data is not empty: the selected runners whose
\* fatigue_analysis.fatigue_progression has points
FatigueDatasets ==
    SelectSeq(selectedRunners,
              LAMBDA id : /\ id \in DOMAIN details
                          /\ details[id].fatigue_analysis.present
                          /\ details[id].fatigue_analysis.fatigue_progression > 0)

\* #createMultiRunnerFatigueChart(courseSegments)
createMultiRunnerFatigueChart ==
    /\ stage = "chart"
    /\ fatigueChart' =
           IF DOMAIN analyses = {}
           THEN [message |-> "", datasets |-> <<>>]
           ELSE IF FatigueDatasets = <<>>
           THEN [message |-> "No fatigue data available for selected runners",
                 datasets |-> <<>>]
           ELSE [message |-> "", datasets |-> FatigueDatasets]
    /\ stage' = "segments"
    /\ UNCHANGED <<stored, pageVars>>
    /\ UNCHANGED <<restVars, payload, runnerAnalyses, hasSelection, details,
                   thrown, multiRunnerTable, segmentTable, criticalSegments>>

\* updateSegmentTable(courseSegments), followed by the call of
\* #updateRestPeriodsListMultiRunner
updateSegmentTable ==
    /\ stage = "segments"
    /\ segmentTable' =
           IF Len(CourseSegments) = 0
           THEN [message |-> "No segment data available", rows |-> <<>>]
           ELSE [message |-> "", rows |-> SegmentRows(CourseSegments)]
    /\ stage' = "rest"
    /\ pc' = "start"
    /\ UNCHANGED <<selectedRunners, analyses, allRunnerRestPeriods, idx,
                   restGroups, rows, container, payload, runnerAnalyses,
                   hasSelection, details, thrown, multiRunnerTable,
                   fatigueChart, criticalSegments, stored, pageVars>>

\* allRestPeriods.filter is not a function: the rest data of a selected
\* runner is an object that wraps no list
CollectRestPeriodsThrows ==
    /\ pc = "start"
    /\ DOMAIN analyses # {}
    /\ Len(selectedRunners) # 0
    /\ \E j \in 1..Len(selectedRunners) : MalformedRestData(selectedRunners[j])
    /\ thrown' = "TypeError: allRestPeriods.filter is not a function"
    /\ stage' = "failed"
    /\ pc' = "thrown"
    /\ UNCHANGED <<selectedRunners, analyses, allRunnerRestPeriods, idx,
                   restGroups, rows, container, payload, runnerAnalyses,
                   hasSelection, details, outputs, stored, pageVars>>

\* #updateRecommendationsMultiRunner, once the rest list has returned
updateRecommendationsMultiRunner ==
    /\ stage = "rest"
    /\ pc = "done"
    /\ criticalSegments' = CriticalSegments(selectedRunners)
    /\ stage' = "finished"
    /\ UNCHANGED <<stored, pageVars>>
    /\ UNCHANGED <<restVars, payload, runnerAnalyses, hasSelection, details,
                   thrown, multiRunnerTable, fatigueChart, segmentTable>>

NextInit ==
    \/ ConstructRunnerAnalyses
    \/ validateInputsThrows
    \/ BaseInit
    \/ updateMultiRunnerTable
    \/ createMultiRunnerFatigueChart
    \/ updateSegmentTable
    \/ NoData
    \/ CollectRestPeriods
    \/ CollectRestPeriodsThrows
    \/ GroupRest
    \/ SortRestGroups
    \/ RenderNoGroups
    \/ RenderGroup
    \/ ShowRows
    \/ updateRecommendationsMultiRunner

SpecComparison == InitComparison /\ [][NextInit]_vars

SpecSegments == InitSegments /\ [][NextInit]_vars

----------------------------------------------------------------------------
(* Properties of the clustering (checked under Spec) *)

\* C1: once the rows are built, every rest group has a row, and every row
\* holds exactly one card per selected runner, in selection order: a rest
\* period of that runner from the row's group, or a placeholder.
Completeness ==
    /\ \A i \in 1..Len(rows) :
          LET cards == rows[i].cards
          IN  /\ Len(cards) = Len(selectedRunners)
              /\ \A j \in 1..Len(selectedRunners) :
                    Cardinality({c \in 1..Len(cards) :
                        cards[c].runnerId = selectedRunners[j]}) = 1
              /\ \A c \in 1..Len(cards) :
                    \/ cards[c].kind = "placeholder"
                    \/ /\ cards[c].kind = "rest"
                       /\ cards[c].rest.runnerId = cards[c].runnerId
                       /\ \E k \in 1..Len(restGroups[i]) :
                             restGroups[i][k] = cards[c].rest
    /\ container = "rows" => Len(rows) = Len(restGroups)

\* C1 witness: visible and hidden rows were built for two runners, and some
\* row mixes a rest card with a placeholder.
CompletenessWitness ==
    /\ container = "rows"
    /\ Len(selectedRunners) = 2
    /\ Len(rows) > VisibleGroupLimit
    /\ rows[Len(rows)].hidden
    /\ \E i \in 1..Len(rows) :
          {rows[i].cards[c].kind : c \in 1..Len(rows[i].cards)}
              = {"rest", "placeholder"}

\* C2 as stated: all members of a group share the aid-station identity and
\* every member's mile is within 5.0 of the group's mean mile.
ClusterWithinFinalMean ==
    \A g \in 1..Len(restGroups) :
        LET group == restGroups[g]
        IN  \A k \in 1..Len(group) :
                /\ AidStationOf(group[k]) = AidStationOf(group[1])
                /\ Abs(MileOf(group[k]) * Len(group) - SumMiles(group))
                       <= MILE_VARIANCE_THRESHOLD * Len(group)

\* C2 amended: all members of a group share the aid-station identity and
\* every member but the first has its mile within 5.0 of the mean mile of
\* the members that precede it in the group (the running mean it met).
ClusterWithinRunningMean ==
    \A g \in 1..Len(restGroups) :
        LET group == restGroups[g]
        IN  \A k \in 2..Len(group) :
                /\ AidStationOf(group[k]) = AidStationOf(group[1])
                /\ Abs(MileOf(group[k]) * (k - 1)
                           - SumMiles(SubSeq(group, 1, k - 1)))
                       <= MILE_VARIANCE_THRESHOLD * (k - 1)

\* C2 witness: a finished group whose mean has drifted more than 5.0 miles
\* away from one of its members.
ClusterWithinRunningMeanWitness ==
    /\ pc = "done"
    /\ \E g \in 1..Len(restGroups) :
          LET group == restGroups[g]
          IN  \E k \in 1..Len(group) :
                  Abs(MileOf(group[k]) * Len(group) - SumMiles(group))
                      > MILE_VARIANCE_THRESHOLD * Len(group)

\* C3 as stated: after grouping, every rest period of a selected runner that
\* carries a mile value under mile or start_mile (0 included) is a member of
\* exactly one group, and a rest period without one is in no group.
ClusteringPartitionsInput ==
    (pc = "render" \/ container = "No rest period data available for selected runners"
                   \/ container = "rows") =>
        \A j \in 1..Len(selectedRunners) :
            LET runnerId == selectedRunners[j]
                list == RestPeriodsOf(runnerId)
            IN  \A i \in 1..Len(list) :
                    LET places == {gk \in {<<g, k>> :
                                        g \in 1..Len(restGroups),
                                        k \in 1..Len(allRunnerRestPeriods)} :
                                      /\ gk[2] <= Len(restGroups[gk[1]])
                                      /\ restGroups[gk[1]][gk[2]].runnerId = runnerId
                                      /\ restGroups[gk[1]][gk[2]].ord = i}
                    IN  IF list[i].mile # Undef \/ list[i].start_mile # Undef
                        THEN Cardinality(places) = 1
                        ELSE Cardinality(places) = 0

\* C4: a grouping step takes the rest periods in ascending mile order and
\* appends the current one to the first group, in creation order, that has
\* its aid-station identity and a mean mile within 5.0 of its mile; when no
\* group fits, it opens a new last group holding only this rest period.
GreedyClusteringStep ==
    [][(pc = "group" /\ idx <= Len(allRunnerRestPeriods)) =>
        LET rest == allRunnerRestPeriods[idx]
            fits == {g \in 1..Len(restGroups) :
                        /\ AidStationOf(restGroups[g][1]) = AidStationOf(rest)
                        /\ Abs(MileOf(rest) * Len(restGroups[g])
                                   - SumMiles(restGroups[g]))
                               <= MILE_VARIANCE_THRESHOLD * Len(restGroups[g])}
        IN  /\ idx > 1 => MileOf(allRunnerRestPeriods[idx - 1]) <= MileOf(rest)
            /\ IF fits # {}
               THEN LET first == CHOOSE g \in fits : \A h \in fits : g <= h
                    IN  restGroups' =
                            [restGroups EXCEPT ![first] = Append(@, rest)]
               ELSE restGroups' = Append(restGroups, <<rest>>)]_vars

\* C4 witness: grouping has finished with several groups, one of them
\* joined by a later rest period.
GreedyClusteringStepWitness ==
    /\ pc = "group"
    /\ idx > Len(allRunnerRestPeriods)
    /\ Len(restGroups) >= 2
    /\ \E g \in 1..Len(restGroups) : Len(restGroups[g]) >= 2

\* C5: the groups handed to rendering are in ascending order of their final
\* mean mile.
GroupsSortedByMean ==
    pc \in {"render", "done"} =>
        \A i, j \in 1..Len(restGroups) :
            i < j => SumMiles(restGroups[i]) * Len(restGroups[j])
                         <= SumMiles(restGroups[j]) * Len(restGroups[i])

\* C5 witness: two rendered groups with different means stand in the
\* opposite order to the one they were created in.
GroupsSortedByMeanWitness ==
    /\ pc = "done"
    /\ \E i, j \in 1..Len(restGroups) :
          /\ i < j
          /\ SumMiles(restGroups[i]) * Len(restGroups[j])
                 < SumMiles(restGroups[j]) * Len(restGroups[i])
          /\ \E p, q \in 1..Len(allRunnerRestPeriods) :
                /\ p < q
                /\ allRunnerRestPeriods[p] = restGroups[j][1]
                /\ allRunnerRestPeriods[q] = restGroups[i][1]

\* C11: in every row of the shown list, the card of a selected runner who has no rest period
\* in the row's group is a placeholder: it is tagged "No rest detected", it
\* is built from the exact mean mile of the group and shows that mean to
\* one decimal (nearest tenth, half-way upwards), and it names the aid
\* station of the first member of the group that has one (none when no
\* member has one).
PlaceholderForMissingRunner ==
    container = "rows" =>
    \A i \in 1..Len(rows) : \A j \in 1..Len(selectedRunners) :
       \A group \in {restGroups[i]} :
          (\A k \in 1..Len(group) : group[k].runnerId # selectedRunners[j])
          => \A card \in {rows[i].cards[j]} :
                /\ card.runnerId = selectedRunners[j]
                /\ card.kind = "placeholder"
                /\ card.text = "No rest detected"
                /\ card.avgMile[1] * Len(group)
                       = SumMiles(group) * card.avgMile[2]
                /\ 2 * Len(group) * card.mileText
                       <= 20 * SumMiles(group) + Len(group)
                /\ 20 * SumMiles(group) + Len(group)
                       < 2 * Len(group) * (card.mileText + 1)
                /\ \/ /\ card.nearbyAidStation = ""
                      /\ \A k \in 1..Len(group) :
                            group[k].nearby_aid_station = ""
                   \/ \E k \in 1..Len(group) :
                         /\ group[k].nearby_aid_station # ""
                         /\ group[k].nearby_aid_station
                               = card.nearbyAidStation
                         /\ \A m \in 1..(k - 1) :
                               group[m].nearby_aid_station = ""

\* C11 witness: the rows are shown and hold a placeholder for a group at a
\* named aid station whose mean mile is not a whole number of tenths, and
\* another placeholder for a group without an aid-station name.
PlaceholderForMissingRunnerWitness ==
    /\ container = "rows"
    /\ \E i \in 1..Len(rows) : \E j \in 1..Len(selectedRunners) :
          /\ rows[i].cards[j].kind = "placeholder"
          /\ rows[i].cards[j].nearbyAidStation = "A"
          /\ (10 * SumMiles(restGroups[i])) % Len(restGroups[i]) # 0
    /\ \E i \in 1..Len(rows) : \E j \in 1..Len(selectedRunners) :
          /\ rows[i].cards[j].kind = "placeholder"
          /\ rows[i].cards[j].nearbyAidStation = ""

\* C12: when the whole request is one rest period of runner 1 and one of
\* runner 2, both at the same named aid station and no more than 5.0 miles
\* apart, the finished comparison has exactly one group, whose mean is the
\* arithmetic mean of the two miles, and its row holds a rest card for each
\* of the two runners.
TwoRunnersOneCluster ==
    (/\ pc = "done"
     /\ Len(selectedRunners) = 2
     /\ DOMAIN analyses = {1, 2}
     /\ Len(analyses[1]) = 1 /\ Len(analyses[2]) = 1
     /\ analyses[1][1].mile # Undef /\ analyses[2][1].mile # Undef
     /\ analyses[1][1].nearby_aid_station # ""
     /\ analyses[1][1].nearby_aid_station = analyses[2][1].nearby_aid_station
     /\ Abs(analyses[1][1].mile - analyses[2][1].mile)
            <= MILE_VARIANCE_THRESHOLD)
    => /\ Len(restGroups) = 1
       /\ Len(rows) = 1
       /\ \A avg \in {AvgMile(restGroups[1])} :
             2 * avg[1] = (analyses[1][1].mile + analyses[2][1].mile) * avg[2]
       /\ \A c \in 1..2 : rows[1].cards[c].kind = "rest"
       /\ {rows[1].cards[c].runnerId : c \in 1..2} = {1, 2}

----------------------------------------------------------------------------
(* Properties of the selection (checked under SpecSelect) *)

\* C6: the rest period shown for a runner in a row has the highest
\* confidence tier (high > medium > low) among that runner's rest periods
\* in the row's group: none of them has a strictly higher tier.
HighestConfidenceSelected ==
    \A i \in 1..Len(rows) : \A c \in 1..Len(rows[i].cards) :
        LET card == rows[i].cards[c]
        IN  card.kind = "rest" =>
                \A k \in 1..Len(restGroups[i]) :
                    LET other == restGroups[i][k]
                    IN  other.runnerId = card.runnerId =>
                            <<other.confidence, card.rest.confidence>> \notin
                                {<<"high", "medium">>, <<"high", "low">>,
                                 <<"medium", "low">>}

\* C6 witness: a runner has rest periods of different tiers in a group and
\* the one shown is not the first of them.
HighestConfidenceSelectedWitness ==
    \E i \in 1..Len(rows) : \E c \in 1..Len(rows[i].cards) :
        LET card == rows[i].cards[c]
            own == IF card.kind = "rest"
                   THEN RunnerRests(restGroups[i], card.runnerId) ELSE <<>>
        IN  /\ card.kind = "rest"
            /\ card.rest # own[1]
            /\ {"high", "medium", "low"} \subseteq
                   {own[k].confidence : k \in 1..Len(own)}

\* C7: among a runner's rest periods in a group that have the confidence of
\* the one shown, the one shown has the largest rest pace (pace_during, else
\* actual_pace, else 0).
HighestPaceAmongTopConfidence ==
    \A i \in 1..Len(rows) : \A c \in 1..Len(rows[i].cards) :
        LET card == rows[i].cards[c]
        IN  card.kind = "rest" =>
                \A k \in 1..Len(restGroups[i]) :
                    LET other == restGroups[i][k]
                    IN  (/\ other.runnerId = card.runnerId
                         /\ other.confidence = card.rest.confidence)
                            => PaceOf(other) <= PaceOf(card.rest)

\* C7 witness: the rest period shown won on pace, taken from actual_pace,
\* against an earlier one of the same confidence that has a pace_during.
HighestPaceAmongTopConfidenceWitness ==
    \E i \in 1..Len(rows) : \E c \in 1..Len(rows[i].cards) :
        LET card == rows[i].cards[c]
            own == IF card.kind = "rest"
                   THEN RunnerRests(restGroups[i], card.runnerId) ELSE <<>>
        IN  /\ card.kind = "rest"
            /\ card.rest # own[1]
            /\ card.rest.pace_during = Undef
            /\ own[1].pace_during # Undef
            /\ own[1].confidence = card.rest.confidence
            /\ PaceOf(own[1]) < PaceOf(card.rest)

\* C8: among a runner's rest periods in a group that have the confidence
\* and the rest pace of the one shown, the one shown has the smallest
\* distance between its mile and the group's mean mile.
ClosestToMeanAmongTies ==
    \A i \in 1..Len(rows) : \A c \in 1..Len(rows[i].cards) :
        LET card == rows[i].cards[c]
            group == restGroups[i]
        IN  card.kind = "rest" =>
                \A k \in 1..Len(group) :
                    (/\ group[k].runnerId = card.runnerId
                     /\ group[k].confidence = card.rest.confidence
                     /\ PaceOf(group[k]) = PaceOf(card.rest))
                        => Abs(MileOf(card.rest) * Len(group) - SumMiles(group))
                             <= Abs(MileOf(group[k]) * Len(group) - SumMiles(group))

\* C8 witness: the rest period shown won on proximity against an earlier
\* one of the same confidence and pace.
ClosestToMeanAmongTiesWitness ==
    \E i \in 1..Len(rows) : \E c \in 1..Len(rows[i].cards) :
        LET card == rows[i].cards[c]
            group == restGroups[i]
            own == IF card.kind = "rest"
                   THEN RunnerRests(group, card.runnerId) ELSE <<>>
        IN  /\ card.kind = "rest"
            /\ card.rest # own[1]
            /\ own[1].confidence = card.rest.confidence
            /\ PaceOf(own[1]) = PaceOf(card.rest)
            /\ Abs(MileOf(card.rest) * Len(group) - SumMiles(group))
                   < Abs(MileOf(own[1]) * Len(group) - SumMiles(group))

\* C9 as stated: for two rest periods of one runner in a group that differ
\* in (confidence, pace, mile), the preference picks the same one whichever
\* of the two is examined first.
TieBreakStrictTotalOrder ==
    pc \in {"render", "done"} =>
        \A g \in 1..Len(restGroups) :
            LET group == restGroups[g]
                avg == AvgMile(group)
            IN  \A a, b \in 1..Len(group) :
                    (/\ a # b
                     /\ group[a].runnerId = group[b].runnerId
                     /\ <<group[a].confidence, PaceOf(group[a]), MileOf(group[a])>>
                          # <<group[b].confidence, PaceOf(group[b]), MileOf(group[b])>>)
                        => Prefer(group[a], group[b], avg)
                             = Prefer(group[b], group[a], avg)

\* C9 amended: for two rest periods of one runner in a group that differ in
\* (confidence, pace, distance from the group's mean mile), the preference
\* picks the same one whichever is examined first, and the one shown for the
\* runner is picked against every such other one in either order; two that
\* agree on all three are tied and the one examined first is kept.
TieBreakTotalOnKeys ==
    container = "rows" =>
        \A g \in 1..Len(restGroups) :
            \A group \in {restGroups[g]} : \A avg \in {AvgMile(restGroups[g])} :
                LET key(r) == <<r.confidence, PaceOf(r),
                                Abs(MileOf(r) * avg[2] - avg[1])>>
                IN  /\ \A a, b \in 1..Len(group) :
                          (a < b /\ group[a].runnerId = group[b].runnerId) =>
                              IF key(group[a]) # key(group[b])
                              THEN Prefer(group[a], group[b], avg)
                                     = Prefer(group[b], group[a], avg)
                              ELSE /\ Prefer(group[a], group[b], avg) = group[a]
                                   /\ Prefer(group[b], group[a], avg) = group[b]
                    /\ \A c \in 1..Len(rows[g].cards) :
                          \A card \in {rows[g].cards[c]} :
                              card.kind = "rest" =>
                                  \A k \in 1..Len(group) :
                                      (/\ group[k].runnerId = card.runnerId
                                       /\ key(group[k]) # key(card.rest))
                                          => /\ Prefer(group[k], card.rest, avg) = card.rest
                                             /\ Prefer(card.rest, group[k], avg) = card.rest

\* C9 witness: a rendered group holds two rest periods of one runner at
\* different miles that agree on confidence, pace and distance from the mean.
TieBreakTotalOnKeysWitness ==
    /\ pc = "done"
    /\ \E g \in 1..Len(restGroups) :
          LET group == restGroups[g]
          IN  \E a, b \in 1..Len(group) :
                  /\ group[a].runnerId = group[b].runnerId
                  /\ MileOf(group[a]) # MileOf(group[b])
                  /\ group[a].confidence = group[b].confidence
                  /\ PaceOf(group[a]) = PaceOf(group[b])
                  /\ Abs(MileOf(group[a]) * Len(group) - SumMiles(group))
                       = Abs(MileOf(group[b]) * Len(group) - SumMiles(group))

\* C10 as stated: an absent confidence counts as 'low': between a runner's
\* rest periods whose confidence is absent or 'low' the confidence does not
\* decide, so the one shown has at least the pace of any other of them.
AbsentConfidenceTiesWithLow ==
    \A i \in 1..Len(rows) : \A c \in 1..Len(rows[i].cards) :
        LET card == rows[i].cards[c]
        IN  (card.kind = "rest" /\ card.rest.confidence \in {"", "low"}) =>
                \A k \in 1..Len(restGroups[i]) :
                    LET other == restGroups[i][k]
                    IN  (/\ other.runnerId = card.runnerId
                         /\ other.confidence \in {"", "low"})
                            => PaceOf(other) <= PaceOf(card.rest)

\* C10 amended: an absent confidence ranks below every explicit tier, 'low'
\* included: a rest period without confidence is shown for a runner only
\* when none of the runner's rest periods in the group has a confidence.
AbsentConfidenceBelowLow ==
    \A i \in 1..Len(rows) : \A c \in 1..Len(rows[i].cards) :
        LET card == rows[i].cards[c]
        IN  (card.kind = "rest" /\ card.rest.confidence = "") =>
                \A k \in 1..Len(restGroups[i]) :
                    restGroups[i][k].runnerId = card.runnerId
                        => restGroups[i][k].confidence = ""

\* C10 witness: a 'low' rest period is shown although the runner has one
\* without confidence that has a higher pace.
AbsentConfidenceBelowLowWitness ==
    \E i \in 1..Len(rows) : \E c \in 1..Len(rows[i].cards) :
        LET card == rows[i].cards[c]
        IN  /\ card.kind = "rest"
            /\ card.rest.confidence = "low"
            /\ \E k \in 1..Len(restGroups[i]) :
                  /\ restGroups[i][k].runnerId = card.runnerId
                  /\ restGroups[i][k].confidence = ""
                  /\ PaceOf(restGroups[i][k]) > PaceOf(card.rest)

----------------------------------------------------------------------------
(* Properties of the segment statistics (checked under SpecSegments) *)

\* C13: the finished ranking lists distinct segment names among those the
\* selected runners report; an entry ranks before another when its mean
\* difficulty is higher, or equal with its name encountered first in the
\* runners' segment lists taken in selection order; it has min(5, number of
\* names) entries, and every name left out ranks behind all that are listed.
CriticalSegmentsRanked ==
    stage = "finished" =>
    \A perfs \in {SegmentPerformances(selectedRunners, 1)} :
       LET names == {perfs[i].name : i \in 1..Len(perfs)}
           First(n) == CHOOSE i \in 1..Len(perfs) :
                          /\ perfs[i].name = n
                          /\ \A k \in 1..(i - 1) : perfs[k].name # n
           Total(n) == SumSeq([i \in 1..Len(perfs) |->
                          IF perfs[i].name = n THEN perfs[i].difficulty ELSE 0])
           Count(n) == Cardinality({i \in 1..Len(perfs) : perfs[i].name = n})
           Before(n, m) ==
               \/ Total(n) * Count(m) > Total(m) * Count(n)
               \/ /\ Total(n) * Count(m) = Total(m) * Count(n)
                  /\ First(n) < First(m)
           listed == {criticalSegments[a].name : a \in 1..Len(criticalSegments)}
       IN  /\ Len(criticalSegments)
                 = IF Cardinality(names) < CriticalSegmentLimit
                   THEN Cardinality(names) ELSE CriticalSegmentLimit
           /\ listed \subseteq names
           /\ Cardinality(listed) = Len(criticalSegments)
           /\ \A a \in 1..Len(criticalSegments) :
                 /\ criticalSegments[a].avgDifficulty[1] * Count(criticalSegments[a].name)
                       = Total(criticalSegments[a].name) * criticalSegments[a].avgDifficulty[2]
                 /\ \A b \in (a + 1)..Len(criticalSegments) :
                       Before(criticalSegments[a].name, criticalSegments[b].name)
                 /\ \A n \in names \ listed :
                       Before(criticalSegments[a].name, n)

\* C13 witness: more than five segments are reported; the ranking is cut to
\* five, holds two entries of equal mean difficulty and ranks a segment
\* that was encountered later above one that was encountered earlier.
CriticalSegmentsRankedWitness ==
    /\ stage = "finished"
    /\ Len(criticalSegments) = CriticalSegmentLimit
    /\ \E perfs \in {SegmentPerformances(selectedRunners, 1)} :
          /\ Cardinality({perfs[i].name : i \in 1..Len(perfs)})
                 > CriticalSegmentLimit
          /\ \E i, k \in 1..Len(perfs) :
                /\ i < k
                /\ \A m \in 1..(k - 1) : perfs[m].name # perfs[k].name
                /\ criticalSegments[1].name = perfs[k].name
                /\ criticalSegments[CriticalSegmentLimit].name = perfs[i].name
    /\ \E a \in 1..(CriticalSegmentLimit - 1) :
          /\ criticalSegments[a].avgDifficulty[1] * criticalSegments[a + 1].avgDifficulty[2]
                = criticalSegments[a + 1].avgDifficulty[1] * criticalSegments[a].avgDifficulty[2]

\* C14 as stated: whatever the segment analyses, every permutation of the
\* selected runners yields the ranking that was produced.
RankingSameUnderPermutation ==
    stage = "finished" =>
    \A p \in {q \in [1..Len(selectedRunners) -> 1..Len(selectedRunners)] :
                 \A i, k \in 1..Len(selectedRunners) : q[i] = q[k] => i = k} :
       CriticalSegments([i \in 1..Len(selectedRunners) |->
                             selectedRunners[p[i]]]) = criticalSegments

\* C14 amended: when no two distinct reported segments have the same mean
\* difficulty, every permutation of the selected runners yields the
\* ranking that was produced.
RankingSameUnderPermutationWithoutTies ==
    (/\ stage = "finished"
     /\ \A stats \in {SegmentMeans(SegmentStats(
                          SegmentPerformances(selectedRunners, 1), 1, <<>>))} :
           \A a, b \in 1..Len(stats) :
              a # b => stats[a].avgDifficulty[1] * stats[b].avgDifficulty[2]
                          # stats[b].avgDifficulty[1] * stats[a].avgDifficulty[2])
    => \A p \in {q \in [1..Len(selectedRunners) -> 1..Len(selectedRunners)] :
                    \A i, k \in 1..Len(selectedRunners) : q[i] = q[k] => i = k} :
          CriticalSegments([i \in 1..Len(selectedRunners) |->
                                selectedRunners[p[i]]]) = criticalSegments

\* C14 witness: two runners are compared, three segments with pairwise
\* different mean difficulty are ranked, and the runner selected second
\* reports a segment that the first one does not.
RankingSameUnderPermutationWithoutTiesWitness ==
    /\ stage = "finished"
    /\ Len(selectedRunners) = 2
    /\ Len(criticalSegments) = 3
    /\ \A a \in 1..2 :
          criticalSegments[a].avgDifficulty[1] * criticalSegments[a + 1].avgDifficulty[2]
             > criticalSegments[a + 1].avgDifficulty[1] * criticalSegments[a].avgDifficulty[2]
    /\ \E a \in 1..3 :
          /\ FindSegment(SegmentAnalysisOf(selectedRunners[1]),
                         criticalSegments[a].name) = <<>>
          /\ FindSegment(SegmentAnalysisOf(selectedRunners[2]),
                         criticalSegments[a].name) # <<>>
    /\ CriticalSegments(<<selectedRunners[2], selectedRunners[1]>>)
           = criticalSegments
    /\ SegmentPerformances(<<selectedRunners[2], selectedRunners[1]>>, 1)[1].name
           # SegmentPerformances(selectedRunners, 1)[1].name

\* C15: every entry of the finished ranking is computed over exactly the
\* selected runners whose segment analysis has a record of that name: its
\* count is their number and its mean difficulty and mean performance are
\* the sums of their ratings (a missing rating counts as 0) over that number.
SegmentStatsOverReportingRunners ==
    stage = "finished" =>
    \A a \in 1..Len(criticalSegments) : \A entry \in {criticalSegments[a]} :
       \A records \in {[j \in 1..Len(selectedRunners) |->
                          FindSegment(SegmentAnalysisOf(selectedRunners[j]),
                                      entry.name)]} :
          \A reporting \in {{j \in 1..Len(selectedRunners) :
                                records[j] # <<>>}} :
             /\ reporting # {}
             /\ entry.count = Cardinality(reporting)
             /\ entry.avgDifficulty[2] = Cardinality(reporting)
             /\ entry.avgPerformance[2] = Cardinality(reporting)
             /\ entry.avgDifficulty[1]
                   = SumSeq([j \in 1..Len(selectedRunners) |->
                        IF j \in reporting
                        THEN OrZero(records[j][1].difficulty_rating) ELSE 0])
             /\ entry.avgPerformance[1]
                   = SumSeq([j \in 1..Len(selectedRunners) |->
                        IF j \in reporting
                        THEN OrZero(records[j][1].performance_score) ELSE 0])

\* C15 witness: two runners are selected; one ranked segment is reported by
\* both, one with a missing rating, and another by only one of them.
SegmentStatsOverReportingRunnersWitness ==
    /\ stage = "finished"
    /\ Len(selectedRunners) = 2
    /\ \E a, b \in 1..Len(criticalSegments) :
          /\ criticalSegments[a].count = 2
          /\ criticalSegments[a].avgDifficulty = <<4, 2>>
          /\ criticalSegments[b].count = 1

\* C16: every row of the segment table shows the mean of average_pace over
\* the selected runners whose record of the row's segment has a pace above
\* 0, to one decimal; when no selected runner has such a record the mean is
\* 0 and the cell reads N/A.
AvgPaceOverPositivePaces ==
    \A i \in 1..Len(segmentTable.rows) : \A row \in {segmentTable.rows[i]} :
       \A paces \in {[j \in 1..Len(selectedRunners) |->
                        IF /\ RunnerSegment(row.segment_name, j) # <<>>
                           /\ RunnerSegment(row.segment_name, j)[1].average_pace > 0
                        THEN RunnerSegment(row.segment_name, j)[1].average_pace
                        ELSE 0]} :
          \A n \in {Cardinality({j \in 1..Len(paces) : paces[j] > 0})} :
             IF n > 0
             THEN /\ row.avgPace[1] * n = SumSeq(paces) * row.avgPace[2]
                  /\ row.paceCell.text = "min/mi"
                  /\ 2 * n * row.paceCell.tenths <= 20 * SumSeq(paces) + n
                  /\ 20 * SumSeq(paces) + n < 2 * n * (row.paceCell.tenths + 1)
             ELSE /\ row.avgPace[1] = 0
                  /\ row.paceCell.text = "N/A"

\* C16 witness: the table has a row whose mean leaves out a runner with
\* pace 0, a row averaging two runners, and a row that reads N/A although a
\* selected runner has a record of the segment.
AvgPaceOverPositivePacesWitness ==
    /\ Len(selectedRunners) = 2
    /\ \E i, k, m \in 1..Len(segmentTable.rows) :
          /\ segmentTable.rows[i].avgPace = <<8, 1>>
          /\ RunnerSegment(segmentTable.rows[i].segment_name, 1) # <<>>
          /\ RunnerSegment(segmentTable.rows[i].segment_name, 2) # <<>>
          /\ segmentTable.rows[k].avgPace = <<18, 2>>
          /\ segmentTable.rows[m].paceCell.text = "N/A"
          /\ RunnerSegment(segmentTable.rows[m].segment_name, 1) # <<>>

----------------------------------------------------------------------------
(* Properties of the summary table and of init (checked under            *)
(* SpecComparison)                                                       *)

\* C17 as stated: the table row of a runner whose record has no fatigue
\* analysis shows N/A as average fatigue and 0 as rest count.
MissingFatigueGivesNoRests ==
    \A j \in 1..Len(multiRunnerTable) : \A row \in {multiRunnerTable[j]} :
       (/\ row.runnerId \in DOMAIN details
        /\ ~details[row.runnerId].fatigue_analysis.present)
       => /\ row.avgFatigue.text = "N/A"
          /\ row.restCount = 0

\* C17 amended: the table row of a runner whose record has no fatigue
\* analysis shows N/A as average fatigue, and as rest count the number of
\* rest periods in the record's rest list (flat or wrapped), 0 when the
\* record has no such list; building the table raises nothing.
MissingFatigueGivesNA ==
    /\ \A j \in 1..Len(multiRunnerTable) : \A row \in {multiRunnerTable[j]} :
          (/\ row.runnerId \in DOMAIN details
           /\ ~details[row.runnerId].fatigue_analysis.present)
          => /\ row.avgFatigue.text = "N/A"
             /\ row.restCount
                   = IF details[row.runnerId].rest_periods
                            \in {"flat", "wrapped"}
                     THEN Len(analyses[row.runnerId]) ELSE 0
    /\ stage = "chart" => /\ thrown = ""
                          /\ Len(multiRunnerTable) = Len(selectedRunners)

\* C17 witness: the table is built for two runners; one record has no
\* fatigue analysis but two rest periods, the other record has a fatigue
\* analysis and shows a number.
MissingFatigueGivesNAWitness ==
    /\ stage = "chart"
    /\ Len(multiRunnerTable) = 2
    /\ \A j \in 1..2 : multiRunnerTable[j].available
    /\ \E j, k \in 1..2 :
          /\ multiRunnerTable[j].avgFatigue.text = "N/A"
          /\ ~details[multiRunnerTable[j].runnerId].fatigue_analysis.present
          /\ multiRunnerTable[j].restCount = 2
          /\ multiRunnerTable[k].avgFatigue.text = "number"
          /\ multiRunnerTable[k].avgFatigue.hundredths = 124

InitFailsFast ==
    (/\ stage \notin {"payload", "init"}
     /\ \/ payload.status = "failed"
        \/ ~hasSelection
        \/ selectedRunners = <<>>)
    => /\ stage = "failed"
       /\ thrown # ""
       /\ (payload.status = "failed" /\ hasSelection /\ selectedRunners # <<>>)
             => thrown = IF payload.error # "" THEN payload.error
                         ELSE "Analysis failed"

\* C20: once validation has passed, init does not fail, whatever entries,
\* sections or rest data the selected runners have.
FaultsIsolatedPerRunner ==
    stage = "failed" => ~hasSelection \/ runnerAnalyses.status = "failed"

----------------------------------------------------------------------------
(* Properties of repeated runs (checked under SpecRepeat) *)

\* C21: a finished run of the rest list on the selected order and analyses
\* of the first run has the clusters, rows and container of the first run,
\* whatever was compared in between
RestListDeterministic ==
    (/\ pc = "done"
     /\ firstRun.done
     /\ selectedRunners = firstRun.selectedRunners
     /\ analyses = firstRun.analyses)
    => /\ restGroups = firstRun.restGroups
       /\ rows = firstRun.rows
       /\ container = firstRun.container

\* a comparison of two clusters is run again after a different one
RestListDeterministicWitness ==
    /\ pc = "done"
    /\ firstRun.done
    /\ firstRun.between
    /\ selectedRunners = firstRun.selectedRunners
    /\ analyses = firstRun.analyses
    /\ Len(restGroups) = 2
    /\ Len(rows) = 2

----------------------------------------------------------------------------
(* Properties of a failed init (checked under SpecComparison) *)

\* C22: whenever init has ended with an error, the summary table, the rest
\* rows, the critical segments and the instance's stored runners and
\* analyses are as they were before the call
InitErrorLeavesNothing ==
    stage = "failed"
    => /\ ~stored
       /\ multiRunnerTable = <<>>
       /\ rows = <<>>
       /\ criticalSegments = <<>>

----------------------------------------------------------------------------
(* Properties of the inputs (checked under SpecComparison) *)

\* C25: no step of the comparison, the rest list and the critical-segments
\* ranking included, changes the selection or the analyses map it was given
AnalysesUnchanged ==
    [][/\ analyses' = analyses
       /\ details' = details
       /\ selectedRunners' = selectedRunners]_vars

\* the rest list and the ranking were built from a runner's list that is
\* not in mile order, and the list is still in its order
AnalysesUnchangedWitness ==
    /\ stage = "finished"
    /\ Len(rows) > 0
    /\ Len(criticalSegments) > 0
    /\ Len(allRunnerRestPeriods) >= 2
    /\ MileOf(allRunnerRestPeriods[1]) < MileOf(allRunnerRestPeriods[2])
    /\ \E id \in DOMAIN analyses :
          /\ Len(analyses[id]) = 2
          /\ MileOf(analyses[id][1]) > MileOf(analyses[id][2])

----------------------------------------------------------------------------
(* Properties of the Runners page (checked under SpecRunners) *)

\* C23: after any sequence of selections, deselections and clearSelections
\* the selection holds at most 5 ids
SelectionAtMostFive == Len(selectedRunners) <= 5

\* five runners are selected and a sixth was refused
SelectionAtMostFiveWitness ==
    /\ Len(selectedRunners) = 5
    /\ runnersPage.op.name = "selectRunner"
    /\ ~Includes(selectedRunners, runnersPage.op.runnerId)
    /\ runnersPage.alert # ""

\* C26: selecting a selected id removes exactly that id and keeps the
\* others in their order; selecting an unselected id appends it when fewer
\* than 5 are selected; with 5 selected the selection stays as it is and the
\* callback is not invoked; an add or a remove that returns normally
\* invokes the callback exactly once
SelectionToggles ==
    [][runnersPage'.op.name = "selectRunner" =>
         LET runnerId == runnersPage'.op.runnerId
             n == Len(selectedRunners)
             selected == \E i \in 1..n : selectedRunners[i] = runnerId
         IN  /\ selected =>
                   \E k \in 1..n :
                       /\ selectedRunners[k] = runnerId
                       /\ Len(selectedRunners') = n - 1
                       /\ \A i \in 1..(k - 1) :
                             selectedRunners'[i] = selectedRunners[i]
                       /\ \A i \in k..(n - 1) :
                             selectedRunners'[i] = selectedRunners[i + 1]
             /\ (~selected /\ n < 5) =>
                   selectedRunners' = selectedRunners \o <<runnerId>>
             /\ (~selected /\ n >= 5) =>
                   /\ selectedRunners' = selectedRunners
                   /\ runnersPage'.callbacks = 0
             /\ (selectedRunners' # selectedRunners
                    /\ runnersPage'.error = "") =>
                   runnersPage'.callbacks = 1
             /\ runnersPage'.callbacks <= 1]_vars

\* the second of three selected runners was deselected by a click, and the
\* callback ran
SelectionTogglesWitness ==
    /\ runnersPage.op = [name |-> "selectRunner", runnerId |-> 2]
    /\ selectedRunners = <<1, 3>>
    /\ runnersPage.selectedCards = {1, 3}
    /\ runnersPage.error = ""
    /\ runnersPage.callbacks = 1

\* C28: after AnalysisButton.update(runners) the button is disabled exactly
\* when no runner is selected, and its label is the advanced-analysis label
\* for 0, the single-runner label for 1 and 'Compare N Runners' for N >= 2
ButtonReflectsSelection ==
    runnersPage.op.name = "update" =>
        LET n == Len(selectedRunners)
        IN  /\ runnersPage.button.disabled <=> n = 0
            /\ n = 0 => runnersPage.button.innerHTML = "Run Advanced Analysis"
            /\ n = 1 =>
                  runnersPage.button.innerHTML = "Run Single Runner Analysis"
            /\ n >= 2 =>
                  runnersPage.button.innerHTML
                      = "Compare " \o ToString(n) \o " Runners"

\* the button was updated for three selected runners
ButtonReflectsSelectionWitness ==
    /\ runnersPage.op.name = "update"
    /\ Len(selectedRunners) = 3
    /\ ~runnersPage.button.disabled
    /\ runnersPage.button.innerHTML = "Compare 3 Runners"

\* C29: the selection never contains an id more than once
SelectionHasNoDuplicates ==
    \A i, j \in 1..Len(selectedRunners) :
        i # j => selectedRunners[i] # selectedRunners[j]

\* a runner that is selected, but not as the last one, was clicked again
\* and is no longer selected
SelectionHasNoDuplicatesWitness ==
    /\ runnersPage.op = [name |-> "selectRunner", runnerId |-> 1]
    /\ selectedRunners = <<2, 3, 4>>
    /\ runnersPage.callbacks = 1

----------------------------------------------------------------------------
(* Properties of the dashboard (checked under SpecDashboard) *)

\* C24: after any add, remove or clear the comparison list holds at most 5
\* entries; runComparison navigates only when at least 2 entries are held,
\* and otherwise shows the warning and changes neither the list, the panel
\* nor the location
ComparisonHoldsTwoToFive ==
    [][/\ Len(dashboard'.selectedAthletes) <= 5
       /\ dashboard'.location # dashboard.location =>
             /\ dashboard'.op.name = "runComparison"
             /\ Len(dashboard.selectedAthletes) >= 2
       /\ (/\ dashboard'.op.name = "runComparison"
           /\ Len(dashboard.selectedAthletes) < 2) =>
             /\ dashboard'.selectedAthletes = dashboard.selectedAthletes
             /\ dashboard'.panel = dashboard.panel
             /\ dashboard'.location = dashboard.location
             /\ dashboard'.notification
                    = "Please select at least 2 athletes to compare"]_vars

\* a sixth entry was refused while five are held
ComparisonHoldsTwoToFiveWitness ==
    /\ dashboard.op.name = "addToComparison"
    /\ Len(dashboard.selectedAthletes) = 5
    /\ dashboard.notification = "Maximum 5 athletes can be compared at once"

\* C30: the comparison list never holds two entries with the same athlete
\* id
ComparisonHasNoDuplicates ==
    \A i, j \in 1..Len(dashboard.selectedAthletes) :
        i # j => dashboard.selectedAthletes[i].id
                     # dashboard.selectedAthletes[j].id

----------------------------------------------------------------------------
(* Properties of fetchWithRetry (checked under SpecFetchFair) *)

====
